---- MODULE Spec2Model ----
(***************************************************************************)
(* A model of the sentiment / stance classification services               *)
(* (app/services/sentiment_service.py, app/services/stance_service.py) and *)
(* of the in-memory result cache they share (app/utils/cache_manager.py).  *)
(*                                                                         *)
(* Texts are Python strings, modelled as sequences of one-character        *)
(* strings.  Python offsets are 0-based and are kept 0-based in every      *)
(* result (mention positions); only the accessors below add 1.             *)
(* Floats are modelled as exact rationals [n, d] in lowest terms.          *)
(* The polarity primitive (VADER) is an external pure function: it is a    *)
(* table that is extended, by a nondeterministic choice, the first time    *)
(* the analyzer is applied to a fragment, and is read ever after.          *)
(***************************************************************************)
EXTENDS Integers, Sequences, FiniteSets, TLC

(***************************************************************************)
(* Characters and the Python string primitives the services use            *)
(***************************************************************************)
\* The value None, where a text or a target is expected.
None == <<"<None>">>

\* The absent warning (warning=None) of a result.
NoWarning == "<None>"

LowerLetters ==
  {"a","b","c","d","e","f","g","h","i","j","k","l","m",
   "n","o","p","q","r","s","t","u","v","w","x","y","z"}

UpperLetters ==
  {"A","B","C","D","E","F","G","H","I","J","K","L","M",
   "N","O","P","Q","R","S","T","U","V","W","X","Y","Z"}

Digits == {"0","1","2","3","4","5","6","7","8","9"}

\* str.isspace / the regex class \s
IsSpace(c) == c \in {" ", "\t", "\n"}

\* the regex class \d
IsDigit(c) == c \in Digits

\* str.isalnum
IsAlnum(c) == c \in LowerLetters \cup UpperLetters \cup Digits

\* the regex class \w: letters, digits and the underscore
IsWordChar(c) == IsAlnum(c) \/ c = "_"

LowerTable ==
  [c \in UpperLetters |->
     CASE c = "A" -> "a" [] c = "B" -> "b" [] c = "C" -> "c" [] c = "D" -> "d"
       [] c = "E" -> "e" [] c = "F" -> "f" [] c = "G" -> "g" [] c = "H" -> "h"
       [] c = "I" -> "i" [] c = "J" -> "j" [] c = "K" -> "k" [] c = "L" -> "l"
       [] c = "M" -> "m" [] c = "N" -> "n" [] c = "O" -> "o" [] c = "P" -> "p"
       [] c = "Q" -> "q" [] c = "R" -> "r" [] c = "S" -> "s" [] c = "T" -> "t"
       [] c = "U" -> "u" [] c = "V" -> "v" [] c = "W" -> "w" [] c = "X" -> "x"
       [] c = "Y" -> "y" [] c = "Z" -> "z"]

\* str.lower
Lower(t) == [i \in 1..Len(t) |-> IF t[i] \in UpperLetters THEN LowerTable[t[i]] ELSE t[i]]

\* t[a:b] for 0 <= a
Slice(t, a, b) == SubSeq(t, a + 1, IF b < Len(t) THEN b ELSE Len(t))

\* str.strip(): leading and trailing whitespace removed
Strip(t) ==
  LET kept == SelectSeq([i \in 1..Len(t) |-> IF IsSpace(t[i]) THEN 0 ELSE i],
                        LAMBDA i : i # 0)
  IN IF kept = <<>> THEN <<>> ELSE SubSeq(t, kept[1], kept[Len(kept)])

\* str.strip(chars): leading and trailing characters of the set removed
StripChars(t, chars) ==
  LET kept == SelectSeq([i \in 1..Len(t) |-> IF t[i] \in chars THEN 0 ELSE i],
                        LAMBDA i : i # 0)
  IN IF kept = <<>> THEN <<>> ELSE SubSeq(t, kept[1], kept[Len(kept)])

\* `not text or not text.strip()`: None, empty or whitespace-only
IsBlank(t) == t = None \/ t = <<>> \/ Strip(t) = <<>>

\* re.sub(r'\s+', ' ', t): every run of whitespace becomes one space
CollapseWhitespace(t) ==
  SelectSeq([i \in 1..Len(t) |->
               IF IsSpace(t[i])
               THEN (IF i > 1 /\ IsSpace(t[i-1]) THEN "" ELSE " ")
               ELSE t[i]],
            LAMBDA c : c # "")

\* re.sub(r'(.)\1{3,}', r'\1\1\1', t): a run of 4 or more equal characters
\* (other than the newline, which '.' does not match) is cut to 3
SqueezeRepeats(t) ==
  SelectSeq([i \in 1..Len(t) |->
               IF i > 3 /\ t[i] # "\n" /\ t[i-1] = t[i] /\ t[i-2] = t[i] /\ t[i-3] = t[i]
               THEN "" ELSE t[i]],
            LAMBDA c : c # "")

\* str.split(): the maximal runs of non-whitespace characters, in order
Split(t) ==
  LET n == Len(t)
      starts == SelectSeq([i \in 1..n |->
                   IF ~IsSpace(t[i]) /\ (i = 1 \/ IsSpace(t[i-1])) THEN i ELSE 0],
                   LAMBDA i : i # 0)
      ends == SelectSeq([i \in 1..n |->
                   IF ~IsSpace(t[i]) /\ (i = n \/ IsSpace(t[i+1])) THEN i ELSE 0],
                   LAMBDA i : i # 0)
  IN [k \in 1..Len(starts) |-> SubSeq(t, starts[k], ends[k])]

\* every offset p (0-based, ascending) with t[p:p+len(w)] == w: the offsets
\* that the loop `pos = t.find(w, start); start = pos + 1` visits
FindAll(t, w) ==
  SelectSeq([p \in 1..(Len(t) - Len(w) + 1) |->
               IF SubSeq(t, p, p + Len(w) - 1) = w THEN p - 1 ELSE -1],
            LAMBDA p : p >= 0)

\* sorted(list(set(positions)))
RECURSIVE SortedSet(_)
SortedSet(S) ==
  IF S = {} THEN <<>>
  ELSE LET m == CHOOSE x \in S : \A y \in S : x <= y
       IN <<m>> \o SortedSet(S \ {m})

Range(s) == {s[i] : i \in 1..Len(s)}

(***************************************************************************)
(* Exact rational arithmetic for the float computations                    *)
(***************************************************************************)
Abs(x) == IF x < 0 THEN -x ELSE x

RECURSIVE GCD(_, _)
GCD(a, b) == IF b = 0 THEN a ELSE GCD(b, a % b)

\* the rational n/d (d # 0) in lowest terms with a positive denominator
R(n, d) ==
  LET g == GCD(Abs(n), Abs(d))
      s == IF d < 0 THEN -1 ELSE 1
  IN [n |-> s * (n \div g), d |-> s * (d \div g)]

RAdd(a, b) ==
  LET g == GCD(a.d, b.d)
  IN R(a.n * (b.d \div g) + b.n * (a.d \div g), (a.d \div g) * b.d)

RNeg(a) == [n |-> -a.n, d |-> a.d]

RSub(a, b) == RAdd(a, RNeg(b))

RMul(a, b) ==
  LET g1 == GCD(Abs(a.n), b.d)
      g2 == GCD(Abs(b.n), a.d)
  IN R((a.n \div g1) * (b.n \div g2), (a.d \div g2) * (b.d \div g1))

\* a / k for an integer k > 0
RDivInt(a, k) == RMul(a, R(1, k))

RAbs(a) == [n |-> Abs(a.n), d |-> a.d]

RLt(a, b) == a.n * b.d < b.n * a.d

RLe(a, b) == a.n * b.d <= b.n * a.d

RMax(a, b) == IF RLt(a, b) THEN b ELSE a

RMin(a, b) == IF RLt(b, a) THEN b ELSE a

Zero == R(0, 1)

One == R(1, 1)

\* n hundredths: the decimal literal 0.nn of the source
Pct(n) == R(n, 100)

\* s[lo] + ... + s[hi], halving the range (the sum is exact, so its order
\* does not matter)
RECURSIVE RSumRange(_, _, _)
RSumRange(s, lo, hi) ==
  IF lo > hi THEN Zero
  ELSE IF lo = hi THEN s[lo]
  ELSE RAdd(RSumRange(s, lo, (lo + hi) \div 2), RSumRange(s, (lo + hi) \div 2 + 1, hi))

\* sum(s)
RSum(s) == RSumRange(s, 1, Len(s))


(***************************************************************************)
(* The polarity primitive (vaderSentiment, external)                       *)
(***************************************************************************)
\* A score vector {compound, pos, neu, neg} of the primitive.
ScoreVector(compound, pos, neu, neg) ==
  [compound |-> compound, pos |-> pos, neu |-> neu, neg |-> neg]

\* The score vectors the primitive may answer with, for any fragment:
\* compound in [-1, 1], pos + neu + neg = 1.  They sit on and around the
\* decision thresholds of both services.
ScoreChoices ==
  {ScoreVector(Pct(80), Pct(70), Pct(20), Pct(10)),
   ScoreVector(Pct(5), Pct(35), Pct(35), Pct(30)),
   ScoreVector(Zero, Zero, One, Zero),
   ScoreVector(Pct(-80), Pct(10), Pct(20), Pct(70))}

\* self.analyzer.polarity_scores(text): v is the primitive's table
polarity_scores(v, text) == v[text]

(***************************************************************************)
(* SentimentService                                                        *)
(***************************************************************************)
MIN_TEXT_LENGTH == 3

MAX_TEXT_LENGTH == 5000

MIN_WORDS_FOR_RELIABLE_ANALYSIS == 3

MAX_SYMBOL_RATIO == Pct(70)

\* The fixed part of each warning text (the interpolated numbers are left out).
WarnEmptyText == "Empty or whitespace-only text provided"

WarnTooShort == "Text too short"

WarnTruncated == "Text truncated for analysis"

WarnTooManySymbols == "Text contains too many symbols. Unable to extract meaningful content."

WarnHighSymbolRatio == "High symbol ratio detected. Analysis based on extracted text."

WarnVeryShort == "Very short text. Analysis may be less reliable."

\* "no result": the None that _check_text_length and _handle_special_cases
\* return when the text passes, and a cache miss
NoResult == [kind |-> "none"]

SentimentResult(sentiment, confidence, scores, fallback_used, warning) ==
  [kind |-> "sentiment", sentiment |-> sentiment, confidence |-> confidence,
   scores |-> scores, fallback_used |-> fallback_used, warning |-> warning]

\* scores={'compound': 0.0, 'pos': 0.0, 'neu': 1.0, 'neg': 0.0}
FallbackScores == ScoreVector(Zero, Zero, One, Zero)

SentimentFallback(warning) ==
  SentimentResult("normal", Pct(10), FallbackScores, TRUE, warning)

SentimentService_preprocess_text(text) ==
  IF IsBlank(text) THEN <<>>
  ELSE SqueezeRepeats(CollapseWhitespace(Strip(text)))

\* _calculate_symbol_ratio without number_count
C9_Mutant_DigitsNotCounted(text) ==
  IF text = <<>> THEN Zero
  ELSE R(Len(SelectSeq(text, LAMBDA c : ~IsWordChar(c) /\ ~IsSpace(c))), Len(text))

_calculate_symbol_ratio(text) ==
  IF text = <<>> THEN Zero
  ELSE LET symbol_count == Len(SelectSeq(text, LAMBDA c : ~IsWordChar(c) /\ ~IsSpace(c)))
           number_count == Len(SelectSeq(text, IsDigit))
       IN R(symbol_count + number_count, Len(text))

\* _classify_sentiment with strict comparisons
C14_Mutant_Strict(scores) ==
  IF RLt(Pct(5), scores.compound) THEN "positive"
  ELSE IF RLt(scores.compound, Pct(-5)) THEN "negative"
  ELSE "normal"

_classify_sentiment(scores) ==
  IF RLe(Pct(5), scores.compound) THEN "positive"
  ELSE IF RLe(scores.compound, Pct(-5)) THEN "negative"
  ELSE "normal"

\* _calculate_confidence, lines 294-299: one score dominates, or none does
DominanceAdjusted(base_confidence, max_sentiment) ==
  IF RLt(Pct(60), max_sentiment) THEN RMin(One, RAdd(base_confidence, Pct(10)))
  ELSE IF RLt(max_sentiment, Pct(40)) THEN RMax(Pct(10), RSub(base_confidence, Pct(10)))
  ELSE base_confidence

\* _calculate_confidence, lines 303-308: very short texts
WordCountAdjusted(base_confidence, word_count) ==
  IF word_count < 3 THEN RMax(Pct(10), RSub(base_confidence, Pct(20)))
  ELSE IF word_count < 5 THEN RMax(Pct(10), RSub(base_confidence, Pct(10)))
  ELSE base_confidence

\* _calculate_confidence, lines 310-313: much of the text was removed
LengthRatioAdjusted(base_confidence, length_ratio) ==
  IF RLt(length_ratio, Pct(50)) THEN RMax(Pct(10), RSub(base_confidence, Pct(15)))
  ELSE base_confidence

SentimentService_calculate_confidence(scores, original_text, processed_text) ==
  LET base_confidence ==
        DominanceAdjusted(RAbs(scores.compound),
                          RMax(scores.pos, RMax(scores.neg, scores.neu)))
  IN RMax(Pct(10), RMin(One,
       IF original_text # <<>> /\ processed_text # <<>>
       THEN LengthRatioAdjusted(
              WordCountAdjusted(base_confidence, Len(Split(processed_text))),
              R(Len(processed_text), Len(original_text)))
       ELSE base_confidence))

\* max(0.1, confidence - penalty) where the source reduces the confidence,
\* the confidence itself where it does not (penalty 0)
Penalised(confidence, penalty) ==
  IF penalty = Zero THEN confidence ELSE RMax(Pct(10), RSub(confidence, penalty))

\* the result built from the primitive's scores: on the main path (lines
\* 94-103) and in the three branches that analyse with a reduced confidence
\* (lines 162-171, 204-213 and 219-228)
SentimentScored(scores, original_text, processed_text, penalty, fallback_used, warning) ==
  SentimentResult(_classify_sentiment(scores),
                  Penalised(SentimentService_calculate_confidence(
                                scores, original_text, processed_text), penalty),
                  scores, fallback_used, warning)

\* _check_text_length, lines 157-171: the text cut to MAX_TEXT_LENGTH
\* the truncation branch without its penalty
C7_Mutant_NoPenalty(v, truncated_text, processed_text) ==
  SentimentScored(polarity_scores(v, processed_text), truncated_text, processed_text,
                  Zero, TRUE, WarnTruncated)

SentimentTruncated(v, truncated_text, processed_text) ==
  SentimentScored(polarity_scores(v, processed_text), truncated_text, processed_text,
                  Pct(20), TRUE, WarnTruncated)

SentimentService_check_text_length(v, text) ==
  LET text_length == Len(Strip(text))
  IN IF text_length < MIN_TEXT_LENGTH THEN SentimentFallback(WarnTooShort)
     ELSE IF text_length > MAX_TEXT_LENGTH
     THEN SentimentTruncated(v, Slice(text, 0, MAX_TEXT_LENGTH),
                             SentimentService_preprocess_text(Slice(text, 0, MAX_TEXT_LENGTH)))
     ELSE NoResult

\* the cleaning that removes nothing
C10_Mutant_NothingRemoved(original_text) == CollapseWhitespace(Strip(original_text))

\* re.sub(r'[^\w\s.,!?;:\'"()-]', ' ', original_text), then whitespace
\* collapsed on the stripped text
MeaningfulText(original_text) ==
  LET kept == {".", ",", "!", "?", ";", ":", "'", "\"", "(", ")", "-"}
      cleaned == [i \in 1..Len(original_text) |->
                    IF IsWordChar(original_text[i]) \/ IsSpace(original_text[i])
                       \/ original_text[i] \in kept
                    THEN original_text[i] ELSE " "]
  IN CollapseWhitespace(Strip(cleaned))

\* _handle_special_cases, lines 193-213: the symbol-heavy branch
SymbolHeavy(v, meaningful_text) ==
  IF Len(Split(meaningful_text)) < 2 THEN SentimentFallback(WarnTooManySymbols)
  ELSE SentimentScored(polarity_scores(v, meaningful_text), meaningful_text,
                       meaningful_text, Pct(30), TRUE, WarnHighSymbolRatio)

_handle_special_cases(v, original_text, processed_text) ==
  IF RLt(MAX_SYMBOL_RATIO, _calculate_symbol_ratio(original_text))
  THEN SymbolHeavy(v, MeaningfulText(original_text))
  ELSE IF Len(Split(processed_text)) < MIN_WORDS_FOR_RELIABLE_ANALYSIS
  THEN SentimentScored(polarity_scores(v, processed_text), original_text,
                       processed_text, Pct(20), TRUE, WarnVeryShort)
  ELSE NoResult

\* `if check: return check`: the early return of a check that answered
OrElse(check, otherwise) == IF check # NoResult THEN check ELSE otherwise

\* analyze_sentiment, lines 83-108: after the length check passed
SentimentAnalysed(v, text, processed_text) ==
  OrElse(_handle_special_cases(v, text, processed_text),
         SentimentScored(polarity_scores(v, processed_text), text, processed_text,
                         Zero, FALSE, NoWarning))

\* analyze_sentiment after a cache miss: the result that is stored and returned
SentimentCompute(v, text) ==
  OrElse(SentimentService_check_text_length(v, text),
         SentimentAnalysed(v, text, SentimentService_preprocess_text(text)))

\* The fragments self.analyzer.polarity_scores is applied to by a computing
\* call of analyze_sentiment(text), for a text that is not blank.
SentimentPolarityInputs(text) ==
  LET text_length == Len(Strip(text))
      processed_text == SentimentService_preprocess_text(text)
  IN IF text_length < MIN_TEXT_LENGTH THEN {}
     ELSE IF text_length > MAX_TEXT_LENGTH
       THEN {SentimentService_preprocess_text(Slice(text, 0, MAX_TEXT_LENGTH))}
     ELSE IF RLt(MAX_SYMBOL_RATIO, _calculate_symbol_ratio(text))
       THEN (IF Len(Split(MeaningfulText(text))) < 2 THEN {} ELSE {MeaningfulText(text)})
     ELSE {processed_text}

(***************************************************************************)
(* StanceService                                                           *)
(***************************************************************************)
STANCE_MIN_TEXT_LENGTH == 3

STANCE_MAX_TEXT_LENGTH == 5000

\* characters around a target mention to analyze
CONTEXT_WINDOW == 50

MIN_CONFIDENCE_THRESHOLD == Pct(10)

NEUTRAL_THRESHOLD == Pct(12)

\* self.POSITIVE_INDICATORS
POSITIVE_INDICATORS ==
  {<<"l","o","v","e">>, <<"l","i","k","e">>, <<"g","r","e","a","t">>,
   <<"e","x","c","e","l","l","e","n","t">>, <<"a","m","a","z","i","n","g">>,
   <<"w","o","n","d","e","r","f","u","l">>, <<"f","a","n","t","a","s","t","i","c">>,
   <<"g","o","o","d">>, <<"b","e","s","t">>, <<"a","w","e","s","o","m","e">>,
   <<"p","e","r","f","e","c","t">>, <<"b","r","i","l","l","i","a","n","t">>,
   <<"o","u","t","s","t","a","n","d","i","n","g">>, <<"s","u","p","e","r","b">>,
   <<"s","u","p","p","o","r","t">>, <<"e","n","d","o","r","s","e">>,
   <<"r","e","c","o","m","m","e","n","d">>, <<"p","r","a","i","s","e">>,
   <<"a","d","m","i","r","e">>, <<"a","p","p","r","e","c","i","a","t","e">>,
   <<"t","r","u","s","t">>, <<"r","e","s","p","e","c","t">>, <<"f","a","v","o","r">>,
   <<"c","h","a","m","p","i","o","n">>, <<"d","e","f","e","n","d">>,
   <<"c","e","l","e","b","r","a","t","e">>, <<"e","m","b","r","a","c","e">>}

\* self.NEGATIVE_INDICATORS
NEGATIVE_INDICATORS ==
  {<<"h","a","t","e">>, <<"d","i","s","l","i","k","e">>,
   <<"t","e","r","r","i","b","l","e">>, <<"a","w","f","u","l">>,
   <<"h","o","r","r","i","b","l","e">>, <<"b","a","d">>, <<"w","o","r","s","t">>,
   <<"d","i","s","g","u","s","t","i","n","g">>, <<"p","a","t","h","e","t","i","c">>,
   <<"u","s","e","l","e","s","s">>, <<"g","a","r","b","a","g","e">>,
   <<"t","r","a","s","h">>, <<"s","u","c","k","s">>, <<"o","p","p","o","s","e">>,
   <<"a","g","a","i","n","s","t">>, <<"c","r","i","t","i","c","i","z","e">>,
   <<"c","o","n","d","e","m","n">>, <<"r","e","j","e","c","t">>,
   <<"d","i","s","a","p","p","r","o","v","e">>, <<"d","i","s","t","r","u","s","t">>,
   <<"d","e","s","p","i","s","e">>, <<"a","t","t","a","c","k">>, <<"b","l","a","m","e">>,
   <<"f","a","u","l","t">>, <<"b","o","y","c","o","t","t">>, <<"a","v","o","i","d">>,
   <<"o","v","e","r","p","r","i","c","e","d">>, <<"w","o","r","t","h","l","e","s","s">>,
   <<"d","i","s","a","p","p","o","i","n","t","i","n","g">>,
   <<"f","r","u","s","t","r","a","t","e","d">>}

\* self.INTENSIFIERS
INTENSIFIERS ==
  {<<"v","e","r","y">>, <<"e","x","t","r","e","m","e","l","y">>,
   <<"r","e","a","l","l","y">>, <<"t","o","t","a","l","l","y">>,
   <<"c","o","m","p","l","e","t","e","l","y">>,
   <<"a","b","s","o","l","u","t","e","l","y">>}

\* self.DIMINISHERS (three entries hold a space)
DIMINISHERS ==
  {<<"s","o","m","e","w","h","a","t">>, <<"s","l","i","g","h","t","l","y">>,
   <<"k","i","n","d"," ","o","f">>, <<"s","o","r","t"," ","o","f">>,
   <<"a"," ","b","i","t">>, <<"r","a","t","h","e","r">>}

\* self.NEGATION_WORDS
NEGATION_WORDS ==
  {<<"n","o","t">>, <<"n","o">>, <<"n","e","v","e","r">>, <<"n","o","t","h","i","n","g">>,
   <<"n","o","b","o","d","y">>, <<"n","o","w","h","e","r","e">>,
   <<"n","e","i","t","h","e","r">>, <<"n","o","r">>, <<"n","o","n","e">>,
   <<"d","o","n","'","t">>, <<"d","o","e","s","n","'","t">>, <<"d","i","d","n","'","t">>,
   <<"w","o","n","'","t">>, <<"w","o","u","l","d","n","'","t">>, <<"c","a","n","'","t">>,
   <<"c","o","u","l","d","n","'","t">>, <<"s","h","o","u","l","d","n","'","t">>}

WarnEmptyTarget == "Empty or whitespace-only target provided"

WarnTargetNotFound == "Target not found in the provided text"

WarnTruncatedTargetNotFound == "Text truncated. Target not found in truncated text."

StanceResult(stance, confidence, target, target_mentions, context_sentiment, keyword_score, combined_score, consistency, fallback_used, warning) ==
  [kind |-> "stance", stance |-> stance, confidence |-> confidence, target |-> target,
   target_mentions |-> target_mentions, context_sentiment |-> context_sentiment,
   keyword_score |-> keyword_score, combined_score |-> combined_score,
   consistency |-> consistency, fallback_used |-> fallback_used, warning |-> warning]

\* StanceResult(stance='neutral', confidence=0.1, target=..., fallback_used=True,
\* warning=...): the other fields keep the constructor's defaults
\* the fallback result without its fallback_used=True
C5_Mutant_NotMarked(target, warning) ==
  StanceResult("neutral", Pct(10), target, 0, Zero, Zero, Zero, One, FALSE, warning)

StanceFallback(target, warning) ==
  StanceResult("neutral", Pct(10), target, 0, Zero, Zero, Zero, One, TRUE, warning)

StanceService_preprocess_text(text) ==
  IF IsBlank(text) THEN <<>> ELSE CollapseWhitespace(Strip(text))

_preprocess_target(target) ==
  IF IsBlank(target) THEN <<>> ELSE CollapseWhitespace(Strip(target))

\* _is_word_boundary_match that accepts every occurrence
C4_Mutant_NoBoundary(text, target, position) == TRUE

_is_word_boundary_match(text, target, position) ==
  LET end_pos == position + Len(target)
  IN /\ ~(position > 0 /\ IsAlnum(text[position]))
     /\ ~(end_pos < Len(text) /\ IsAlnum(text[end_pos + 1]))

\* the inner loop that appends every sub-word occurrence
C20_Mutant_AcceptAll(positions, candidates, n) == positions \o candidates

\* the inner loop of _find_target_mentions over the sub-word occurrences:
\* a candidate is appended unless an accepted position is nearer than n
RECURSIVE AcceptSubwordMatches(_, _, _)
AcceptSubwordMatches(positions, candidates, n) ==
  IF candidates = <<>> THEN positions
  ELSE LET pos == Head(candidates)
           covered == \E existing_pos \in Range(positions) : Abs(pos - existing_pos) < n
       IN AcceptSubwordMatches(IF covered THEN positions ELSE Append(positions, pos),
                               Tail(candidates), n)

\* the boundary-respecting occurrences of each word of length > 2, word by word
RECURSIVE SubwordCandidates(_, _)
SubwordCandidates(text_lower, target_words) ==
  IF target_words = <<>> THEN <<>>
  ELSE LET word == Head(target_words)
           here == IF Len(word) > 2
                   THEN SelectSeq(FindAll(text_lower, word),
                                  LAMBDA pos : _is_word_boundary_match(text_lower, word, pos))
                   ELSE <<>>
       IN here \o SubwordCandidates(text_lower, Tail(target_words))

\* _find_target_mentions that returns the positions as they were appended
C11_Mutant_Unsorted(text, target) ==
  IF text = <<>> \/ target = <<>> THEN <<>>
  ELSE LET text_lower == Lower(text)
           target_lower == Lower(target)
           exact == SelectSeq(FindAll(text_lower, target_lower),
                              LAMBDA pos : _is_word_boundary_match(text_lower, target_lower, pos))
           target_words == Split(target_lower)
       IN IF Len(target_words) > 1
          THEN AcceptSubwordMatches(exact, SubwordCandidates(text_lower, target_words),
                                    Len(target_lower))
          ELSE exact

_find_target_mentions(text, target) ==
  IF text = <<>> \/ target = <<>> THEN <<>>
  ELSE LET text_lower == Lower(text)
           target_lower == Lower(target)
           exact == SelectSeq(FindAll(text_lower, target_lower),
                              LAMBDA pos : _is_word_boundary_match(text_lower, target_lower, pos))
           target_words == Split(target_lower)
           positions == IF Len(target_words) > 1
                        THEN AcceptSubwordMatches(exact,
                                 SubwordCandidates(text_lower, target_words),
                                 Len(target_lower))
                        ELSE exact
       IN SortedSet(Range(positions))

\* text[max(0, pos - radius) : min(len(text), pos + radius)]
ContextWindow(text, pos, radius) ==
  Slice(text, IF pos - radius > 0 THEN pos - radius ELSE 0, pos + radius)

_analyze_context_sentiment(v, text, positions) ==
  IF positions = <<>> THEN Zero
  ELSE LET context_sentiments ==
             [k \in 1..Len(positions) |->
                polarity_scores(v, ContextWindow(text, positions[k], CONTEXT_WINDOW)).compound]
       IN RDivInt(RSum(context_sentiments), Len(context_sentiments))

\* word.strip('.,!?;:"()[]{}')
StripPunctuation(word) ==
  StripChars(word, {".", ",", "!", "?", ";", ":", "\"", "(", ")", "[", "]", "{", "}"})

\* _apply_modifiers that looks for an intensifier among all four words
\* before it looks for a diminisher
C22_Mutant_IntensifierFirst(words, word_idx, base_score) ==
  LET lo == IF word_idx - 2 > 0 THEN word_idx - 2 ELSE 0
      hi == IF word_idx + 3 < Len(words) THEN word_idx + 3 ELSE Len(words)
      near == {StripPunctuation(words[i + 1]) : i \in (lo..(hi - 1)) \ {word_idx}}
  IN IF near \cap INTENSIFIERS # {} THEN RMul(base_score, R(3, 2))
     ELSE IF near \cap DIMINISHERS # {} THEN RMul(base_score, R(7, 10))
     ELSE base_score

_apply_modifiers(words, word_idx, base_score) ==
  LET lo == IF word_idx - 2 > 0 THEN word_idx - 2 ELSE 0
      hi == IF word_idx + 3 < Len(words) THEN word_idx + 3 ELSE Len(words)
      hits == {i \in lo..(hi - 1) :
                 /\ i # word_idx
                 /\ StripPunctuation(words[i + 1]) \in INTENSIFIERS \cup DIMINISHERS}
      first == CHOOSE i \in hits : \A j \in hits : i <= j
  IN IF hits = {} THEN base_score
     ELSE IF StripPunctuation(words[first + 1]) \in INTENSIFIERS
          THEN RMul(base_score, R(3, 2))
          ELSE RMul(base_score, R(7, 10))

\* _apply_negation that flips once for every negation word it meets
C12_Mutant_FlipPerWord(words, word_idx, base_score) ==
  LET lo == IF word_idx - 3 > 0 THEN word_idx - 3 ELSE 0
      hits == {i \in lo..(word_idx - 1) : StripPunctuation(words[i + 1]) \in NEGATION_WORDS}
  IN IF Cardinality(hits) % 2 = 1 THEN RNeg(base_score) ELSE base_score

_apply_negation(words, word_idx, base_score) ==
  LET lo == IF word_idx - 3 > 0 THEN word_idx - 3 ELSE 0
  IN IF \E i \in lo..(word_idx - 1) : StripPunctuation(words[i + 1]) \in NEGATION_WORDS
     THEN RNeg(base_score)
     ELSE IF word_idx > 0 /\ StripPunctuation(words[word_idx]) \in NEGATION_WORDS
     THEN RNeg(base_score)
     ELSE base_score

\* window_size = 10
KEYWORD_WINDOW_SIZE == 10

_calculate_keyword_score(words, target_pos) ==
  LET window_size == KEYWORD_WINDOW_SIZE
      start_idx == IF target_pos - window_size > 0 THEN target_pos - window_size ELSE 0
      end_idx == IF target_pos + window_size < Len(words)
                 THEN target_pos + window_size ELSE Len(words)
      word_score(i) ==
        LET word == StripPunctuation(words[i + 1])
            distance_weight == R(1, Abs(i - target_pos) + 1)
        IN IF word \in POSITIVE_INDICATORS
           THEN _apply_negation(words, i, _apply_modifiers(words, i, distance_weight))
           ELSE IF word \in NEGATIVE_INDICATORS
           THEN _apply_negation(words, i, _apply_modifiers(words, i, RNeg(distance_weight)))
           ELSE Zero
      score == RSum([k \in 1..(end_idx - start_idx) |-> word_score(start_idx + k - 1)])
      max_possible_score == window_size * 2
  IN RMax(RNeg(One), RMin(One, RDivInt(score, max_possible_score)))

_find_target_word_position(context_words, char_offset, full_text) ==
  Len(context_words) \div 2

_analyze_keyword_based_stance(text, positions) ==
  IF positions = <<>> THEN Zero
  ELSE LET text_lower == Lower(text)
           keyword_scores ==
             [k \in 1..Len(positions) |->
                LET pos == positions[k]
                    start == IF pos - CONTEXT_WINDOW * 2 > 0 THEN pos - CONTEXT_WINDOW * 2 ELSE 0
                    context_words == Split(ContextWindow(text_lower, pos, CONTEXT_WINDOW * 2))
                    target_word_pos ==
                      _find_target_word_position(context_words, pos - start, text_lower)
                IN _calculate_keyword_score(context_words, target_word_pos)]
       IN RDivInt(RSum(keyword_scores), Len(keyword_scores))

\* _combine_stance_signals that also boosts signals of strength exactly 0.3
C24_Mutant_BoostAtThreshold(sentiment_score, keyword_score) ==
  LET combined == RAdd(RMul(sentiment_score, R(4, 10)), RMul(keyword_score, R(6, 10)))
      agree == \/ (RLt(Zero, sentiment_score) /\ RLt(Zero, keyword_score))
               \/ (RLt(sentiment_score, Zero) /\ RLt(keyword_score, Zero))
      boosted == IF /\ RLe(Pct(30), RAbs(sentiment_score))
                    /\ RLe(Pct(30), RAbs(keyword_score))
                    /\ agree
                 THEN RMul(combined, R(12, 10)) ELSE combined
  IN RMax(RNeg(One), RMin(One, boosted))

_combine_stance_signals(sentiment_score, keyword_score) ==
  LET combined == RAdd(RMul(sentiment_score, R(4, 10)), RMul(keyword_score, R(6, 10)))
      agree == \/ (RLt(Zero, sentiment_score) /\ RLt(Zero, keyword_score))
               \/ (RLt(sentiment_score, Zero) /\ RLt(keyword_score, Zero))
      boosted == IF /\ RLt(Pct(30), RAbs(sentiment_score))
                    /\ RLt(Pct(30), RAbs(keyword_score))
                    /\ agree
                 THEN RMul(combined, R(12, 10)) ELSE combined
  IN RMax(RNeg(One), RMin(One, boosted))

\* _check_stance_consistency with the sample variance (n - 1) for the
\* population variance
C25_Mutant_SampleVariance(v, text, positions) ==
  IF Len(positions) <= 1 THEN One
  ELSE LET stance_scores ==
             [k \in 1..Len(positions) |->
                polarity_scores(v, ContextWindow(text, positions[k], CONTEXT_WINDOW)).compound]
           mean_score == RDivInt(RSum(stance_scores), Len(stance_scores))
           squares == [k \in 1..Len(stance_scores) |->
                         RMul(RSub(stance_scores[k], mean_score),
                              RSub(stance_scores[k], mean_score))]
           variance == RDivInt(RSum(squares), Len(stance_scores) - 1)
       IN RMax(Zero, RSub(One, RMul(variance, R(2, 1))))

_check_stance_consistency(v, text, positions) ==
  IF Len(positions) <= 1 THEN One
  ELSE LET stance_scores ==
             [k \in 1..Len(positions) |->
                polarity_scores(v, ContextWindow(text, positions[k], CONTEXT_WINDOW)).compound]
           mean_score == RDivInt(RSum(stance_scores), Len(stance_scores))
           squares == [k \in 1..Len(stance_scores) |->
                         RMul(RSub(stance_scores[k], mean_score),
                              RSub(stance_scores[k], mean_score))]
           variance == RDivInt(RSum(squares), Len(stance_scores))
       IN RMax(Zero, RSub(One, RMul(variance, R(2, 1))))

\* _classify_stance that takes the boundary for a stance
C13_Mutant_BoundaryIncluded(combined_score) ==
  IF RLe(NEUTRAL_THRESHOLD, combined_score) THEN "supportive"
  ELSE IF RLe(combined_score, RNeg(NEUTRAL_THRESHOLD)) THEN "opposing"
  ELSE "neutral"

_classify_stance(combined_score) ==
  IF RLt(NEUTRAL_THRESHOLD, combined_score) THEN "supportive"
  ELSE IF RLt(combined_score, RNeg(NEUTRAL_THRESHOLD)) THEN "opposing"
  ELSE "neutral"

\* _calculate_confidence, lines 623-625: several mentions
MentionsAdjusted(base_confidence, mention_count) ==
  IF mention_count > 1 THEN RMin(One, RAdd(base_confidence, Pct(10))) ELSE base_confidence

\* the text length adjustment without its floor
C19_Mutant_NoFloor(base_confidence, word_count) ==
  IF word_count < 5 THEN RSub(base_confidence, Pct(20))
  ELSE IF word_count > 50 THEN RMin(One, RAdd(base_confidence, Pct(10)))
  ELSE base_confidence

\* _calculate_confidence, lines 630-635: the length of the text
TextLengthAdjusted(base_confidence, word_count) ==
  IF word_count < 5 THEN RMax(Pct(10), RSub(base_confidence, Pct(20)))
  ELSE IF word_count > 50 THEN RMin(One, RAdd(base_confidence, Pct(10)))
  ELSE base_confidence

\* _calculate_confidence, lines 637-640: a target of several words
TargetWordsAdjusted(base_confidence, target_word_count) ==
  IF target_word_count > 1 THEN RMin(One, RAdd(base_confidence, Pct(5))) ELSE base_confidence

\* _calculate_confidence, lines 642-645: a strong combined score
StrengthAdjusted(base_confidence, combined_score) ==
  IF RLt(Pct(70), RAbs(combined_score)) THEN RMin(One, RAdd(base_confidence, Pct(10)))
  ELSE base_confidence

\* StanceService._calculate_confidence without its last line, the clamp
\* max(MIN_CONFIDENCE_THRESHOLD, min(1.0, base_confidence))
C1_Mutant_Unclamped(combined_score, mention_count, text, target, consistency) ==
  IF mention_count = 0 THEN Pct(10)
  ELSE StrengthAdjusted(
         TargetWordsAdjusted(
           TextLengthAdjusted(
             RMul(MentionsAdjusted(RAbs(combined_score), mention_count), consistency),
             Len(Split(text))),
           Len(Split(target))),
         combined_score)

StanceService_calculate_confidence(combined_score, mention_count, text, target, consistency) ==
  IF mention_count = 0 THEN Pct(10)
  ELSE RMax(MIN_CONFIDENCE_THRESHOLD, RMin(One,
         StrengthAdjusted(
           TargetWordsAdjusted(
             TextLengthAdjusted(
               RMul(MentionsAdjusted(RAbs(combined_score), mention_count), consistency),
               Len(Split(text))),
             Len(Split(target))),
           combined_score)))

\* analyze_stance, lines 146-163 (and _check_text_length, lines 253-266):
\* the result built from the combined score
StanceClassified(combined_score, context_sentiment, keyword_stance_score, stance_consistency, mention_count, processed_text, processed_target, target, penalty, fallback_used, warning) ==
  StanceResult(_classify_stance(combined_score),
               Penalised(StanceService_calculate_confidence(
                             combined_score, mention_count, processed_text,
                             processed_target, stance_consistency), penalty),
               target, mention_count, context_sentiment, keyword_stance_score,
               combined_score, stance_consistency, fallback_used, warning)

\* analyze_stance, lines 140-144: the two signals are combined
StanceCombined(context_sentiment, keyword_stance_score, stance_consistency, mention_count, processed_text, processed_target, target, penalty, fallback_used, warning) ==
  StanceClassified(_combine_stance_signals(context_sentiment, keyword_stance_score),
                   context_sentiment, keyword_stance_score, stance_consistency,
                   mention_count, processed_text, processed_target, target,
                   penalty, fallback_used, warning)

\* the scoring shared by analyze_stance (lines 134-163) and by the
\* truncation branch of _check_text_length (lines 246-266)
StanceScored(v, processed_text, processed_target, target_positions, target, penalty, fallback_used, warning) ==
  StanceCombined(_analyze_context_sentiment(v, processed_text, target_positions),
                 _analyze_keyword_based_stance(processed_text, target_positions),
                 _check_stance_consistency(v, processed_text, target_positions),
                 Len(target_positions), processed_text, processed_target, target,
                 penalty, fallback_used, warning)

\* _check_text_length, lines 229-266: the text cut to MAX_TEXT_LENGTH
StanceTruncated(v, processed_text, processed_target, target_positions, target) ==
  IF target_positions = <<>>
  THEN StanceFallback(target, WarnTruncatedTargetNotFound)
  ELSE StanceScored(v, processed_text, processed_target, target_positions, target,
                    Pct(20), TRUE, WarnTruncated)

StanceService_check_text_length(v, text, target) ==
  LET text_length == Len(Strip(text))
      processed_text == StanceService_preprocess_text(Slice(text, 0, STANCE_MAX_TEXT_LENGTH))
  IN IF text_length < STANCE_MIN_TEXT_LENGTH THEN StanceFallback(target, WarnTooShort)
     ELSE IF text_length > STANCE_MAX_TEXT_LENGTH
     THEN StanceTruncated(v, processed_text, _preprocess_target(target),
                          _find_target_mentions(processed_text, _preprocess_target(target)),
                          target)
     ELSE NoResult

\* analyze_stance, lines 113-163: after the length check passed
StanceAnalysed(v, processed_text, processed_target, target_positions, target) ==
  IF target_positions = <<>> THEN StanceFallback(target, WarnTargetNotFound)
  ELSE StanceScored(v, processed_text, processed_target, target_positions, target,
                    Zero, FALSE, NoWarning)

\* analyze_stance after a cache miss: the result that is stored and returned
StanceCompute(v, text, target) ==
  OrElse(StanceService_check_text_length(v, text, target),
         StanceAnalysed(v, StanceService_preprocess_text(text), _preprocess_target(target),
                        _find_target_mentions(StanceService_preprocess_text(text),
                                              _preprocess_target(target)),
                        target))

\* The fragments self.sentiment_analyzer.polarity_scores is applied to by a
\* computing call of analyze_stance(text, target), text and target not blank.
StancePolarityInputs(text, target) ==
  LET text_length == Len(Strip(text))
      analysed == IF text_length > STANCE_MAX_TEXT_LENGTH
                  THEN Slice(text, 0, STANCE_MAX_TEXT_LENGTH) ELSE text
      processed_text == StanceService_preprocess_text(analysed)
      target_positions == _find_target_mentions(processed_text, _preprocess_target(target))
  IN IF text_length < STANCE_MIN_TEXT_LENGTH THEN {}
     ELSE {ContextWindow(processed_text, target_positions[k], CONTEXT_WINDOW) :
             k \in 1..Len(target_positions)}


(***************************************************************************)
(* CacheManager.  A cache is [entries, max_size, last_cleanup]; entries is *)
(* the dict _cache in insertion order, each entry a CacheEntry with its    *)
(* key.  The statistics counters (_stats) are not modelled: nothing reads  *)
(* them but get_stats.  t is the value of time.time() during the call.     *)
(***************************************************************************)
\* CacheManager.__init__(max_size=1000, default_ttl=3600)
DEFAULT_MAX_SIZE == 1000

DEFAULT_TTL == 3600

\* self._cleanup_interval
CLEANUP_INTERVAL == 300

CacheEntry(key, data, created_at, expires_at, access_count, last_accessed) ==
  [key |-> key, data |-> data, created_at |-> created_at, expires_at |-> expires_at,
   access_count |-> access_count, last_accessed |-> last_accessed]

\* CacheManager() at time t
NewCacheManager(t) == [entries |-> <<>>, max_size |-> DEFAULT_MAX_SIZE, last_cleanup |-> t]

\* CacheEntry.is_expired at time t
is_expired(entry, t) == t > entry.expires_at

Keys(c) == {c.entries[i].key : i \in 1..Len(c.entries)}

IndexOf(c, key) == CHOOSE i \in 1..Len(c.entries) : c.entries[i].key = key

\* hashlib.md5(s.encode('utf-8')).hexdigest(): the digest is taken to be
\* collision-free, so a digest stands for the string it was computed from
Md5(s) == <<"md5">> \o s

generate_sentiment_key(text) == <<"sentiment:">> \o Md5(text)

\* combined = f"{text}|{target}"
generate_stance_key(text, target) == <<"stance:">> \o Md5(text \o <<"|">> \o target)

_maybe_cleanup(c, t) ==
  IF t - c.last_cleanup < CLEANUP_INTERVAL THEN c
  ELSE [c EXCEPT !.last_cleanup = t,
                 !.entries = SelectSeq(c.entries, LAMBDA e : ~is_expired(e, t))]

\* the indices 1..Len(keys) ordered by keys[i] = <<a, b>> (a first, then b),
\* equal keys in index order: Python's stable sorted()
RECURSIVE StableOrder(_, _)
StableOrder(keys, left) ==
  IF left = {} THEN <<>>
  ELSE LET before(i, j) == \/ keys[i][1] < keys[j][1]
                           \/ (keys[i][1] = keys[j][1] /\ keys[i][2] < keys[j][2])
                           \/ (keys[i] = keys[j] /\ i <= j)
           m == CHOOSE i \in left : \A j \in left : before(i, j)
       IN <<m>> \o StableOrder(keys, left \ {m})

\* _evict_entries that picks the entries created first, whenever they were
\* last accessed
C28_Mutant_OldestCreated(c) ==
  IF c.entries = <<>> THEN c
  ELSE LET n == Len(c.entries)
           evict_count == IF c.max_size \div 4 > 1 THEN c.max_size \div 4 ELSE 1
           entries_by_age == StableOrder([i \in 1..n |-> <<c.entries[i].created_at, 0>>], 1..n)
           k == IF evict_count < n THEN evict_count ELSE n
           evicted == {entries_by_age[i] : i \in 1..k}
           kept == SelectSeq([i \in 1..n |-> IF i \in evicted THEN NoResult ELSE c.entries[i]],
                             LAMBDA e : e # NoResult)
       IN [c EXCEPT !.entries = kept]

_evict_entries(c) ==
  IF c.entries = <<>> THEN c
  ELSE LET n == Len(c.entries)
           evict_count == IF c.max_size \div 4 > 1 THEN c.max_size \div 4 ELSE 1
           entries_by_access == StableOrder([i \in 1..n |-> <<c.entries[i].last_accessed, 0>>], 1..n)
           k == IF evict_count < n THEN evict_count ELSE n
           evicted == {entries_by_access[i] : i \in 1..k}
           kept == SelectSeq([i \in 1..n |-> IF i \in evicted THEN NoResult ELSE c.entries[i]],
                             LAMBDA e : e # NoResult)
       IN [c EXCEPT !.entries = kept]

\* CacheManager.get(key): the cache afterwards and the value returned
\* (NoResult for None)
CacheManager_get(c, key, t) ==
  LET c1 == _maybe_cleanup(c, t)
      i == IndexOf(c1, key)
  IN IF key \notin Keys(c1) THEN [cache |-> c1, value |-> NoResult]
     ELSE IF is_expired(c1.entries[i], t)
     THEN [cache |-> [c1 EXCEPT !.entries = SelectSeq(c1.entries, LAMBDA e : e.key # key)],
           value |-> NoResult]
     ELSE [cache |-> [c1 EXCEPT !.entries[i].access_count = @ + 1,
                                !.entries[i].last_accessed = t],
           value |-> c1.entries[i].data]

\* the argument ttl=None of CacheManager.set
NoTtl == -1

\* CacheManager.set(key, value, ttl): `ttl or self.default_ttl` replaces
\* None and 0 alike
CacheManager_set(c, key, value, ttl, t) ==
  LET ttl1 == IF ttl = NoTtl \/ ttl = 0 THEN DEFAULT_TTL ELSE ttl
      entry == CacheEntry(key, value, t, t + ttl1, 0, t)
      c1 == IF Len(c.entries) >= c.max_size /\ key \notin Keys(c) THEN _evict_entries(c) ELSE c
  IN IF key \in Keys(c1)
     THEN [c1 EXCEPT !.entries[IndexOf(c1, key)] = entry]
     ELSE [c1 EXCEPT !.entries = Append(@, entry)]

CacheManager_delete(c, key) ==
  [c EXCEPT !.entries = SelectSeq(c.entries, LAMBDA e : e.key # key)]

CacheManager_clear(c) == [c EXCEPT !.entries = <<>>]

\* resize_cache that sets the new size and leaves the entries
C26_Mutant_ResizeKeepsAll(c, new_max_size) ==
  [c EXCEPT !.max_size = IF new_max_size > 1 THEN new_max_size ELSE 1]

resize_cache(c, new_max_size) ==
  LET n == Len(c.entries)
      max_size == IF new_max_size > 1 THEN new_max_size ELSE 1
      entries_by_access == StableOrder([i \in 1..n |-> <<-c.entries[i].last_accessed, 0>>], 1..n)
  IN IF n > max_size
     THEN [c EXCEPT !.max_size = max_size,
                    !.entries = [k \in 1..max_size |-> c.entries[entries_by_access[k]]]]
     ELSE [c EXCEPT !.max_size = max_size]

\* int(self.max_size * 0.8) and int(self.max_size * 0.7)
TenthsOf(max_size, tenths) == (max_size * tenths) \div 10

optimize_cache(c, t) ==
  LET live == SelectSeq(c.entries, LAMBDA e : ~is_expired(e, t))
      n == Len(live)
      threshold == TenthsOf(c.max_size, 8)
      target_size == TenthsOf(c.max_size, 7)
      entries_to_remove == n - target_size
      entries_by_usage == StableOrder([i \in 1..n |-> <<live[i].access_count, live[i].last_accessed>>], 1..n)
      k == IF entries_to_remove < n THEN entries_to_remove ELSE n
      removed == {entries_by_usage[i] : i \in 1..k}
      kept == SelectSeq([i \in 1..n |-> IF i \in removed THEN NoResult ELSE live[i]],
                        LAMBDA e : e # NoResult)
  IN IF n > threshold /\ entries_to_remove > 0
     THEN [c EXCEPT !.entries = kept]
     ELSE [c EXCEPT !.entries = live]


(***************************************************************************)
(* The state: one process, its global CacheManager shared by the           *)
(* SentimentService and the StanceService, the clock, the polarity         *)
(* primitive's table, and a record of the calls made.                      *)
(***************************************************************************)
VARIABLES
  cache,      \* the CacheManager the services share: its entries, max_size, last cleanup
  now,        \* time.time()
  vader,      \* the polarity primitive: fragment -> score vector, as far as it was asked
  last,       \* the call that returned last: its arguments, result, cache hit, fragments scored
  answers,    \* every (call, label, confidence) returned so far
  steps,      \* the number of operations performed
  pending,    \* the calls that have looked in the cache and not yet returned
  probe,      \* the internal step or the request observed last, with its outcome
  _cache_instance  \* the object the module global refers to: 0 for None, else its identity

vars == <<cache, now, vader, last, answers, steps, pending, probe, _cache_instance>>

\* the operations one behaviour performs
MaxSteps == 4

\* the clock stops here
MaxTime == 7300

NoCall == [op |-> "none", text |-> <<>>, target |-> <<>>, result |-> NoResult,
           hit |-> FALSE, scored |-> {}]

Call(op, text, target, result, hit, scored) ==
  [op |-> op, text |-> text, target |-> target, result |-> result,
   hit |-> hit, scored |-> scored]

LabelOf(result) == IF result.kind = "sentiment" THEN result.sentiment ELSE result.stance

Answer(op, text, target, result) ==
  [op |-> op, text |-> text, target |-> target,
   label |-> LabelOf(result), confidence |-> result.confidence]

\* the tables that agree with v and also answer for the fragments
Extensions(v, fragments) ==
  {v @@ f : f \in [fragments \ DOMAIN v -> ScoreChoices]}

\* nothing observed yet
NoProbe == [op |-> "none"]

Init ==
  /\ cache = NewCacheManager(0)
  /\ now = 0
  /\ vader = <<>>
  /\ last = NoCall
  /\ answers = {}
  /\ steps = 0
  /\ pending = <<>>
  /\ probe = NoProbe
  /\ _cache_instance = 0

Returned(op, text, target, result, hit, scored) ==
  /\ last' = Call(op, text, target, result, hit, scored)
  /\ answers' = answers \cup {Answer(op, text, target, result)}
  /\ steps' = steps + 1
  /\ UNCHANGED now

\* a computed result that is returned and not stored
C15_Mutant_NotStored(op, text, target, cache_key, result, scored, c, v) ==
  /\ Returned(op, text, target, result, FALSE, scored)
  /\ cache' = c
  /\ vader' = v

\* a computed result is stored (cache_manager.set) and returned
Computed(op, text, target, cache_key, result, scored, c, v) ==
  /\ Returned(op, text, target, result, FALSE, scored)
  /\ cache' = CacheManager_set(c, cache_key, result, NoTtl, now)
  /\ vader' = v

\* a cache_manager.get that answered, or answered None
Looked(op, text, target, cache_key, got, fragments) ==
  IF got.value # NoResult
  THEN /\ Returned(op, text, target, got.value, TRUE, {})
       /\ cache' = got.cache
       /\ UNCHANGED vader
  ELSE \E v \in Extensions(vader, fragments) :
         Computed(op, text, target, cache_key,
                  IF op = "sentiment" THEN SentimentCompute(v, text)
                                      ELSE StanceCompute(v, text, target),
                  fragments, got.cache, v)

\* SentimentService.analyze_sentiment(text)
AnalyzeSentiment(text) ==
  /\ UNCHANGED <<pending, probe, _cache_instance>>
  /\ IF IsBlank(text)
     THEN /\ Returned("sentiment", text, <<>>, SentimentFallback(WarnEmptyText), FALSE, {})
          /\ UNCHANGED <<cache, vader>>
     ELSE Looked("sentiment", text, <<>>, generate_sentiment_key(text),
                 CacheManager_get(cache, generate_sentiment_key(text), now),
                 SentimentPolarityInputs(text))

\* analyze_stance that looks at the target before it looks at the text
C8_Mutant_TargetFirst(text, target) ==
  /\ UNCHANGED <<pending, probe, _cache_instance>>
  /\ IF IsBlank(target)
     THEN /\ Returned("stance", text, target,
                      StanceFallback(IF target = None THEN <<>> ELSE target, WarnEmptyTarget),
                      FALSE, {})
          /\ UNCHANGED <<cache, vader>>
     ELSE IF IsBlank(text)
     THEN /\ Returned("stance", text, target, StanceFallback(target, WarnEmptyText), FALSE, {})
          /\ UNCHANGED <<cache, vader>>
     ELSE Looked("stance", text, target, generate_stance_key(text, target),
                 CacheManager_get(cache, generate_stance_key(text, target), now),
                 StancePolarityInputs(text, target))

\* StanceService.analyze_stance(text, target)
AnalyzeStance(text, target) ==
  /\ UNCHANGED <<pending, probe, _cache_instance>>
  /\ IF IsBlank(text)
     THEN /\ Returned("stance", text, target, StanceFallback(target, WarnEmptyText), FALSE, {})
          /\ UNCHANGED <<cache, vader>>
     ELSE IF IsBlank(target)
     THEN /\ Returned("stance", text, target,
                      StanceFallback(IF target = None THEN <<>> ELSE target, WarnEmptyTarget),
                      FALSE, {})
          /\ UNCHANGED <<cache, vader>>
     ELSE Looked("stance", text, target, generate_stance_key(text, target),
                 CacheManager_get(cache, generate_stance_key(text, target), now),
                 StancePolarityInputs(text, target))

Other(op) ==
  /\ last' = Call(op, <<>>, <<>>, NoResult, FALSE, {})
  /\ steps' = steps + 1
  /\ UNCHANGED <<vader, answers>>

\* DELETE /cache/clear: cache_manager.clear()
ClearCache ==
  /\ cache' = CacheManager_clear(cache)
  /\ Other("clear")
  /\ UNCHANGED <<now, pending, probe, _cache_instance>>

\* POST /cache/resize: cache_manager.resize_cache(new_size)
ResizeCache(new_size) ==
  /\ cache' = resize_cache(cache, new_size)
  /\ Other("resize")
  /\ UNCHANGED <<now, pending, probe, _cache_instance>>

\* time passes
Tick(d) ==
  /\ now + d <= MaxTime
  /\ now' = now + d
  /\ Other("tick")
  /\ UNCHANGED <<cache, pending, probe, _cache_instance>>

(***************************************************************************)
(* Inputs                                                                  *)
(***************************************************************************)
\* ''
TxtEmpty == <<>>

\* ' \t'
TxtBlank == <<" ","\t">>

\* 'Hi'
TxtHi == <<"H","i">>

\* 'So good'
TxtSoGood == <<"S","o"," ","g","o","o","d">>

\* '@@@@'
TxtAts == <<"@","@","@","@">>

\* 'I do love Bob a lot'
TxtLoveBob == <<"I"," ","d","o"," ","l","o","v","e"," ","B","o","b"," ","a"," ","l","o","t">>

\* 'Bob Bob'
TxtBobBob == <<"B","o","b"," ","B","o","b">>

\* 'Bob'
TxtBob == <<"B","o","b">>

\* 'Hi|I love Bob'
TxtHiLoveBob == <<"H","i","|","I"," ","l","o","v","e"," ","B","o","b">>

\* 'I love Bob|Bob'
TxtLoveBobBob == <<"I"," ","l","o","v","e"," ","B","o","b","|","B","o","b">>

\* the texts given to analyze_sentiment
SentimentInputs == {None, TxtHi, TxtAts, TxtLoveBob}

\* the (text, target) pairs given to analyze_stance; <<TxtHi, TxtLoveBobBob>>
\* and <<TxtHiLoveBob, TxtBob>> both join to 'Hi|I love Bob|Bob'
StanceInputs ==
  {<<TxtHi, TxtEmpty>>, <<TxtLoveBob, TxtBob>>, <<TxtSoGood, TxtBob>>,
   <<TxtBobBob, TxtBob>>, <<TxtHi, TxtLoveBobBob>>, <<TxtHiLoveBob, TxtBob>>}

\* the sizes given to resize_cache
ResizeInputs == {1}

\* the time that passes at once: past the default ttl
TickInputs == {DEFAULT_TTL + 1}

Next ==
  /\ steps < MaxSteps
  /\ \/ \E text \in SentimentInputs : AnalyzeSentiment(text)
     \/ \E p \in StanceInputs : AnalyzeStance(p[1], p[2])
     \/ ClearCache
     \/ \E n \in ResizeInputs : ResizeCache(n)
     \/ \E d \in TickInputs : Tick(d)

Spec == Init /\ [][Next]_vars

(***************************************************************************)
(* One call on a fresh cache, over every short text and a few long ones    *)
(***************************************************************************)
\* the longest enumerated text
MaxTextLen == 4

\* every text of at most n characters of the alphabet
Texts(alphabet, n) == UNION {[1..k -> alphabet] : k \in 0..n}

\* a letter, a digit, a kept and a removed symbol, the underscore, a space
SentimentAlphabet == {"a", "1", "!", "@", "_", " "}

StanceAlphabet == {"a", "b", "!", " "}

\* '!@#$%^&*()'
TxtSymbols == <<"!","@","#","$","%","^","&","*","(",")">>

\* '!!!!!!!abc': 7 symbols in 10 characters
TxtSevenOfTen == <<"!","!","!","!","!","!","!","a","b","c">>

\* 'a' * (MAX_TEXT_LENGTH + 1)
LongA == [i \in 1..(MAX_TEXT_LENGTH + 1) |-> "a"]

\* '@' * (MAX_TEXT_LENGTH + 1)
LongAts == [i \in 1..(MAX_TEXT_LENGTH + 1) |-> "@"]

\* 'ab ab ab ...', MAX_TEXT_LENGTH + 2 characters
LongWords == [i \in 1..(MAX_TEXT_LENGTH + 2) |-> IF i % 3 = 1 THEN "a" ELSE IF i % 3 = 2 THEN "b" ELSE " "]

\* two spaces, then 'ab ab ab ...': the cut at MAX_TEXT_LENGTH counts the spaces
LongPadded == <<" ", " ">> \o LongWords

\* 'a!' * (MAX_TEXT_LENGTH / 2), then spaces: longer than MAX_TEXT_LENGTH
\* only before it is stripped
LongOnlyRaw == [i \in 1..(MAX_TEXT_LENGTH + 3) |-> IF i > MAX_TEXT_LENGTH THEN " " ELSE IF i % 2 = 1 THEN "a" ELSE "!"]

\* 'Bob a a a ...', longer than MAX_TEXT_LENGTH
LongBob == TxtBob \o [i \in 1..MAX_TEXT_LENGTH |-> IF i % 2 = 1 THEN " " ELSE "a"]

\* 'I love York'
TxtLoveYork == <<"I"," ","l","o","v","e"," ","Y","o","r","k">>

\* 'I love Paris'
TxtLoveParis == <<"I"," ","l","o","v","e"," ","P","a","r","i","s">>

\* 'I love New York'
TxtLoveNewYork == <<"I"," ","l","o","v","e"," ","N","e","w"," ","Y","o","r","k">>

\* 'New York'
TxtNewYork == <<"N","e","w"," ","Y","o","r","k">>

\* 'Bobby is not bad'
TxtBobby == <<"B","o","b","b","y"," ","i","s"," ","n","o","t"," ","b","a","d">>

\* the texts given to analyze_sentiment
CallTexts ==
  Texts(SentimentAlphabet, MaxTextLen)
    \cup {None, TxtSymbols, TxtSevenOfTen, TxtLoveBob,
          LongA, LongAts, LongWords, LongPadded, LongOnlyRaw}

\* the (text, target) pairs given to analyze_stance
CallPairs ==
  ((Texts(StanceAlphabet, MaxTextLen) \cup {None})
     \X {None, TxtEmpty, <<" ">>, <<"a">>, <<"a", "b">>, <<"a", " ", "b">>,
         <<"a", "a", "a", " ", "b">>})
    \cup {<<TxtHi, TxtEmpty>>, <<TxtLoveBob, TxtBob>>, <<TxtBobBob, TxtBob>>,
          <<TxtBobby, TxtBob>>, <<TxtLoveYork, TxtNewYork>>,
          <<TxtLoveParis, TxtNewYork>>, <<TxtLoveNewYork, TxtNewYork>>,
          <<TxtSymbols, TxtBob>>, <<LongBob, TxtBob>>, <<LongA, TxtBob>>}

CallNext ==
  /\ steps = 0
  /\ \/ \E text \in CallTexts : AnalyzeSentiment(text)
     \/ \E p \in CallPairs : AnalyzeStance(p[1], p[2])

SpecCall == Init /\ [][CallNext]_vars

(***************************************************************************)
(* Properties of the shared cache (specification Spec)                     *)
(***************************************************************************)
SentimentLabels == {"positive", "negative", "normal"}

StanceLabels == {"supportive", "opposing", "neutral"}

\* the last operation was a classifier call, which returned last.result
CallReturned == last.op \in {"sentiment", "stance"}

C2_Idempotent ==
  \A a, b \in answers :
    (a.op = b.op /\ a.text = b.text /\ a.target = b.target)
      => (a.label = b.label /\ a.confidence = b.confidence)

\* C3: analyze_stance(text, target) never returns a result computed for
\* another pair: the result's target is the target argument, and a result
\* found in the cache was stored by a call with the same (text, target).
C3_StanceCacheIsMemoization ==
  (last.op = "stance" /\ last.target # None) => last.result.target = last.target

\* C6: a text that is None, empty, whitespace-only or shorter than 3
\* characters once trimmed gets the fixed fallback from both classifiers
\* (normal / neutral, confidence 0.1, fallback_used) and the polarity
\* primitive is not consulted.
C6_BlankOrShortTextFallsBack ==
  (CallReturned /\ (IsBlank(last.text) \/ Len(Strip(last.text)) < 3)) =>
    /\ LabelOf(last.result) = IF last.op = "sentiment" THEN "normal" ELSE "neutral"
    /\ last.result.confidence = Pct(10)
    /\ last.result.fallback_used
    /\ last.scored = {}

(***************************************************************************)
(* Properties of one call (specification SpecCall).  The notions the       *)
(* claims use are stated here on the arguments of the call, apart from     *)
(* the operators of the services.                                          *)
(***************************************************************************)
\* the trimmed length of a text that is not None
TrimmedLen(text) == Len(Strip(text))

\* count / length > 0.7
Above70(count, length) == count * 10 > 7 * length

\* the characters that are neither alphanumeric nor whitespace
NonAlnumCount(text) ==
  Cardinality({i \in 1..Len(text) : ~IsAlnum(text[i]) /\ ~IsSpace(text[i])})

\* the characters that are no letter, digit, underscore or whitespace, plus
\* the digits
SymbolAndDigitCount(text) ==
  Cardinality({i \in 1..Len(text) : ~IsWordChar(text[i]) /\ ~IsSpace(text[i])})
    + Cardinality({i \in 1..Len(text) : IsDigit(text[i])})

\* the text passes the empty, too-short and over-length checks
PassesLengthChecks(text) ==
  ~IsBlank(text) /\ TrimmedLen(text) >= 3 /\ TrimmedLen(text) <= 5000

\* the result comes from the symbol-heavy branch
TookSymbolBranch == last.result.warning \in {WarnTooManySymbols, WarnHighSymbolRatio}

\* the part of the text that is analysed: whitespace-normalised, and cut to
\* its first 5000 characters when its trimmed length exceeds 5000
AnalysedText(text) ==
  CollapseWhitespace(Strip(IF TrimmedLen(text) > 5000 THEN Slice(text, 0, 5000) ELSE text))

\* the phrase w occurs in t, case-insensitively, with no letter or digit
\* right before or right after it
Occurs(t, w) ==
  LET tl == Lower(t)
      wl == Lower(w)
  IN /\ w # <<>>
     /\ \E p \in 0..(Len(t) - Len(w)) :
          /\ SubSeq(tl, p + 1, p + Len(w)) = wl
          /\ (p = 0 \/ ~IsAlnum(t[p]))
          /\ (p + Len(w) = Len(t) \/ ~IsAlnum(t[p + Len(w) + 1]))

\* the words of a target of several words that are longer than 2 characters
LongWordsOf(target) ==
  LET words == Split(CollapseWhitespace(Strip(target)))
  IN IF Len(words) > 1 THEN {words[i] : i \in {j \in 1..Len(words) : Len(words[j]) > 2}}
     ELSE {}

\* the target phrase occurs in the analysed text
PhraseOccurs(text, target) ==
  Occurs(AnalysedText(text), CollapseWhitespace(Strip(target)))

\* the target phrase, or one of its longer words, occurs in the analysed text
PhraseOrWordOccurs(text, target) ==
  \/ PhraseOccurs(text, target)
  \/ \E w \in LongWordsOf(target) : Occurs(AnalysedText(text), w)

\* a call of analyze_stance with a text and a target that are not blank,
\* whose result was computed (not found in the cache)
StanceComputed ==
  last.op = "stance" /\ ~last.hit /\ ~IsBlank(last.text) /\ ~IsBlank(last.target)

NoMention ==
  /\ last.result.target_mentions = 0
  /\ last.result.stance = "neutral"
  /\ last.result.confidence = Pct(10)

\* C4 as stated: when the target phrase does not occur in the text
\* (case-insensitive, word boundaries respected), analyze_stance returns
\* mention_count 0, neutral, confidence 0.1, for targets of several words too.
C4_Original ==
  (StanceComputed /\ ~PhraseOccurs(last.text, last.target)) => NoMention

\* C4 (amended): when neither the target phrase nor, for a target of several
\* words, any of its words longer than 2 characters occurs in the analysed
\* text, a computed analyze_stance result has mention_count 0, label neutral
\* and confidence 0.1.
C4_AbsentTargetIsNeutral ==
  (StanceComputed /\ ~PhraseOrWordOccurs(last.text, last.target)) => NoMention

\* 'New York' against 'I love Paris': neither the phrase nor a word occurs
C4_Witness ==
  /\ StanceComputed
  /\ last.text = TxtLoveParis
  /\ last.target = TxtNewYork
  /\ NoMention
  /\ last.result.warning = WarnTargetNotFound

\* the result is marked degraded and carries a warning
Degraded == last.result.fallback_used /\ last.result.warning # NoWarning

\* the bad inputs analyze_sentiment checks for
BadSentimentInput(text) ==
  \/ ~PassesLengthChecks(text)
  \/ Above70(SymbolAndDigitCount(text), Len(text))

\* the bad inputs analyze_stance checks for
BadStanceInput(text, target) ==
  \/ ~PassesLengthChecks(text)
  \/ IsBlank(target)
  \/ ~PhraseOrWordOccurs(text, target)

TruncatedText(text) == Slice(text, 0, 5000)

\* C7: for a text whose trimmed length exceeds 5000, analyze_sentiment
\* analyses the first 5000 characters (it scores them, preprocessed, and
\* nothing else), sets fallback_used and the truncation warning, and returns
\* a confidence of at most the confidence calculated on the first 5000
\* characters minus 0.2, floored at 0.1.
C7_TruncationPenalty ==
  (last.op = "sentiment" /\ ~IsBlank(last.text) /\ TrimmedLen(last.text) > 5000) =>
    LET processed == SentimentService_preprocess_text(TruncatedText(last.text))
    IN /\ last.result.fallback_used
       /\ last.result.warning = WarnTruncated
       /\ last.scored = {processed}
       /\ last.result.scores = vader[processed]
       /\ RLe(last.result.confidence,
              RMax(Pct(10), RSub(SentimentService_calculate_confidence(
                                     vader[processed], TruncatedText(last.text), processed),
                                 Pct(20))))

\* an over-length text that starts with spaces, scored above the floor
C7_Witness ==
  /\ last.op = "sentiment"
  /\ last.text = LongPadded
  /\ last.result.warning = WarnTruncated
  /\ RLt(Pct(10), last.result.confidence)

OnlySymbols(text) ==
  text # <<>> /\ \A i \in 1..Len(text) : ~IsWordChar(text[i]) /\ ~IsSpace(text[i])

\* the fixed fallback of the symbol-heavy branch
TooManySymbolsFallback ==
  /\ last.result = SentimentFallback(WarnTooManySymbols)
  /\ last.scored = {}

\* C10 as stated: every text made only of symbols gets the fixed fallback
\* with the too-many-symbols warning.
C10_Original ==
  (last.op = "sentiment" /\ PassesLengthChecks(last.text) /\ OnlySymbols(last.text))
    => TooManySymbolsFallback

\* a character the cleaning keeps and that is not whitespace
KeptVisible(c) ==
  IsWordChar(c) \/ c \in {".", ",", "!", "?", ";", ":", "'", "\"", "(", ")", "-"}

\* the words of the cleaned text: the maximal runs of kept characters
CleanedWordCount(text) ==
  Cardinality({i \in 1..Len(text) :
                 KeptVisible(text[i]) /\ (i = 1 \/ ~KeptVisible(text[i - 1]))})

\* C10 (amended): a symbol-heavy text that passes the length checks and
\* whose cleaned text (every character other than a letter, digit,
\* underscore, whitespace or one of .,!?;:'"()- replaced by a space) has
\* fewer than 2 words gets the fixed fallback: normal, 0.1, fallback_used,
\* the too-many-symbols warning.  A text made only of symbols may clean to 2
\* or more words of kept punctuation, and is then analysed.
C10_NoMeaningfulContentFallsBack ==
  (/\ last.op = "sentiment"
   /\ PassesLengthChecks(last.text)
   /\ Above70(SymbolAndDigitCount(last.text), Len(last.text))
   /\ CleanedWordCount(last.text) < 2) => TooManySymbolsFallback

\* '!!!' cleans to one word of kept punctuation
C10_Witness ==
  /\ last.op = "sentiment"
  /\ last.text = <<"!", "!", "!">>
  /\ TooManySymbolsFallback

\* the words of a text: the maximal runs of characters that are no whitespace
WordCount(text) ==
  Cardinality({i \in 1..Len(text) :
                 ~IsSpace(text[i]) /\ (i = 1 \/ IsSpace(text[i - 1]))})

\* the first check of analyze_sentiment that the text fails, as its warning
SentimentLadderWarning(text) ==
  IF IsBlank(text) THEN WarnEmptyText
  ELSE IF TrimmedLen(text) < 3 THEN WarnTooShort
  ELSE IF TrimmedLen(text) > 5000 THEN WarnTruncated
  ELSE IF Above70(SymbolAndDigitCount(text), Len(text))
  THEN (IF CleanedWordCount(text) < 2 THEN WarnTooManySymbols ELSE WarnHighSymbolRatio)
  ELSE IF WordCount(text) < 3 THEN WarnVeryShort
  ELSE NoWarning

\* the confidence that goes with a warning of analyze_sentiment: the fixed
\* 0.1 of a fallback, or the confidence calculated on what was analysed,
\* less the discount of the check that matched and floored at 0.1
SentimentLadderConfidence(text, warning, scores) ==
  CASE warning \in {WarnEmptyText, WarnTooShort, WarnTooManySymbols} -> Pct(10)
    [] warning = WarnTruncated ->
         RMax(Pct(10), RSub(SentimentService_calculate_confidence(
                                scores, TruncatedText(text),
                                SentimentService_preprocess_text(TruncatedText(text))),
                            Pct(20)))
    [] warning = WarnHighSymbolRatio ->
         RMax(Pct(10), RSub(SentimentService_calculate_confidence(
                                scores, MeaningfulText(text), MeaningfulText(text)),
                            Pct(30)))
    [] warning = WarnVeryShort ->
         RMax(Pct(10), RSub(SentimentService_calculate_confidence(
                                scores, text, SentimentService_preprocess_text(text)),
                            Pct(20)))
    [] OTHER ->
         SentimentService_calculate_confidence(
             scores, text, SentimentService_preprocess_text(text))

SentimentFollowsLadder ==
  last.op = "sentiment" =>
    /\ last.result.warning = SentimentLadderWarning(last.text)
    /\ last.result.confidence =
         SentimentLadderConfidence(last.text, last.result.warning, last.result.scores)

\* the checks of analyze_stance in the order of the source: the empty
\* target comes second
StanceLadderWarning(text, target) ==
  IF IsBlank(text) THEN WarnEmptyText
  ELSE IF IsBlank(target) THEN WarnEmptyTarget
  ELSE IF TrimmedLen(text) < 3 THEN WarnTooShort
  ELSE IF TrimmedLen(text) > 5000
  THEN (IF PhraseOrWordOccurs(text, target) THEN WarnTruncated
        ELSE WarnTruncatedTargetNotFound)
  ELSE IF ~PhraseOrWordOccurs(text, target) THEN WarnTargetNotFound
  ELSE NoWarning

\* the checks of analyze_stance in the order of the claim: the empty target
\* comes last
StanceClaimedWarning(text, target) ==
  IF IsBlank(text) THEN WarnEmptyText
  ELSE IF TrimmedLen(text) < 3 THEN WarnTooShort
  ELSE IF TrimmedLen(text) > 5000
  THEN (IF ~IsBlank(target) /\ PhraseOrWordOccurs(text, target) THEN WarnTruncated
        ELSE WarnTruncatedTargetNotFound)
  ELSE IF IsBlank(target) THEN WarnEmptyTarget
  ELSE IF ~PhraseOrWordOccurs(text, target) THEN WarnTargetNotFound
  ELSE NoWarning

\* a call of analyze_stance that was not answered from the cache
StanceNotFromCache ==
  last.op = "stance" /\ (IsBlank(last.text) \/ IsBlank(last.target) \/ ~last.hit)

\* the confidence that goes with a warning of analyze_stance
StanceLadderConfidence(text, target, warning, result) ==
  LET calculated ==
        StanceService_calculate_confidence(
            result.combined_score, result.target_mentions, AnalysedText(text),
            CollapseWhitespace(Strip(target)), result.consistency)
  IN CASE warning = WarnTruncated -> RMax(Pct(10), RSub(calculated, Pct(20)))
       [] warning = NoWarning -> calculated
       [] OTHER -> Pct(10)

Observed(p) ==
  /\ probe' = p
  /\ steps' = steps + 1
  /\ UNCHANGED <<cache, now, vader, last, answers, pending, _cache_instance>>

\* StanceService._find_target_mentions(text, target)
Locate(text, target) ==
  Observed([op |-> "locate", text |-> text, target |-> target,
            positions |-> _find_target_mentions(text, target)])

\* a lower-case and an upper-case letter, a symbol, a space
LocateAlphabet == {"a", "B", "!", " "}

\* 'Pineapple is good but Apple is better.'
TxtPineapple == <<"P","i","n","e","a","p","p","l","e"," ","i","s"," ","g","o","o","d"," ","b","u","t"," ","A","p","p","l","e"," ","i","s"," ","b","e","t","t","e","r",".">>

\* 'Apple'
TxtApple == <<"A","p","p","l","e">>

\* the texts searched
LocateTexts ==
  Texts(LocateAlphabet, MaxTextLen)
    \cup {TxtPineapple, TxtLoveNewYork, TxtLoveYork,
          <<"a","a","a"," ","B">>, <<"a","a","a"," ","B"," ","a","a","a">>, <<"a","a","a"," ","a","a","a"," ","B">>,
          <<"a","a","a","!","!"," ","a","a","a"," ","B">>, <<"B","B","B"," ","a","a","a">>, <<"a","a","a"," ","B"," ","a","a","a"," ","B">>,
          <<"B","a","a","a"," ","B","!"," ","a","a","a">>}

\* the targets searched for: one word, several short words, several words
\* with one or two of them longer than 2 characters
LocateTargets ==
  {<<>>, <<"a">>, <<"B">>, <<"a", "B">>, <<"a", " ", "B">>, <<"a", " ", "a">>,
   <<"a","a","a"," ","B">>, <<"a","a","a"," ","B","B","B">>, TxtApple, TxtNewYork}

\* StanceService._apply_negation(words, word_idx, base_score)
Negation(words, word_idx, base_score) ==
  Observed([op |-> "negation", words |-> words, word_idx |-> word_idx,
            base_score |-> base_score,
            score |-> _apply_negation(words, word_idx, base_score)])

\* StanceService._analyze_keyword_based_stance(text, positions)
KeywordStance(text, positions) ==
  Observed([op |-> "keyword", text |-> text, positions |-> positions,
            score |-> _analyze_keyword_based_stance(text, positions)])

\* the longest word list given to _apply_negation
MaxWords == 5

\* two negation words, one with punctuation, an indicator, another word
NegationVocabulary ==
  {<<"n","o","t">>, <<"d","o","n","'","t",",">>, <<"l","o","v","e">>, <<"i">>}

NegationWordLists == UNION {[1..k -> NegationVocabulary] : k \in 1..MaxWords}

\* modifier-adjusted contributions of an indicator: 1.0 / 2, -1.5 / 3
NegationScores == {R(1, 2), R(-1, 2)}

\* 'I don't love Apple'
TxtDontLoveApple == <<"I"," ","d","o","n","'","t"," ","l","o","v","e"," ","A","p","p","l","e">>

\* 'I love Apple'
TxtLoveApple == <<"I"," ","l","o","v","e"," ","A","p","p","l","e">>

\* the contexts scored, each with the position of its target
KeywordInputs ==
  {<<TxtDontLoveApple, <<13>>>>, <<TxtLoveApple, <<7>>>>,
   <<<<"I"," ","d","o"," ","n","o","t"," ","r","e","a","l","l","y"," ","l","o","v","e"," ","A","p","p","l","e">>, <<21>>>>,
   <<<<"I"," ","h","a","t","e"," ","A","p","p","l","e">>, <<7>>>>,
   <<<<"n","e","v","e","r"," ","n","o","t"," ","l","o","v","e"," ","A","p","p","l","e">>, <<15>>>>}

\* analyze_stance from the combined score on: _classify_stance,
\* _calculate_confidence and the StanceResult, on the normal path (no
\* penalty) and on the truncated path
Classified(combined_score, penalty) ==
  Observed([op |-> "classified",
            result |-> StanceClassified(combined_score, combined_score, combined_score,
                                        One, 1, TxtLoveBob, TxtBob, TxtBob, penalty,
                                        penalty # Zero,
                                        IF penalty = Zero THEN NoWarning ELSE WarnTruncated)])

\* SentimentService._classify_sentiment(scores)
ClassifySentiment(scores) ==
  Observed([op |-> "classify_sentiment", scores |-> scores,
            sentiment |-> _classify_sentiment(scores)])

\* combined scores on, next to and away from the thresholds +-0.12, in hundredths
CombinedScores == {Pct(n) : n \in {-100, -80, -13, -12, -11, 0, 11, 12, 13, 80, 100}}

\* compound scores on, next to and away from the thresholds +-0.05, in hundredths
CompoundScores == {Pct(n) : n \in {-100, -6, -5, -4, 0, 4, 5, 6, 100}}

\* the calls made alongside the steps
UnitTexts == {TxtHi, TxtAts, TxtLoveBob, TxtSevenOfTen, LongWords}

UnitPairs ==
  {<<TxtLoveBob, TxtBob>>, <<TxtBobBob, TxtBob>>, <<TxtBobby, TxtBob>>,
   <<TxtLoveYork, TxtNewYork>>, <<TxtLoveParis, TxtNewYork>>, <<LongBob, TxtBob>>}

\* base_confidence after each adjustment of StanceService._calculate_confidence
RunningConfidence(combined_score, mention_count, text, target, consistency) ==
  LET mentions == MentionsAdjusted(RAbs(combined_score), mention_count)
      consistent == RMul(mentions, consistency)
      length == TextLengthAdjusted(consistent, Len(Split(text)))
      words == TargetWordsAdjusted(length, Len(Split(target)))
  IN <<mentions, consistent, length, words, StrengthAdjusted(words, combined_score)>>

\* StanceService._calculate_confidence(combined_score, mention_count, text,
\* target, consistency)
Calibrate(combined_score, mention_count, text, target, consistency) ==
  Observed([op |-> "calibrate", combined_score |-> combined_score,
            mention_count |-> mention_count, text |-> text, target |-> target,
            consistency |-> consistency,
            running |-> RunningConfidence(combined_score, mention_count, text,
                                          target, consistency),
            confidence |-> StanceService_calculate_confidence(
                               combined_score, mention_count, text, target, consistency)])

\* a text of 7 words and a text of 51 words
TxtSevenWords == [i \in 1..13 |-> IF i % 2 = 1 THEN "a" ELSE " "]

TxtManyWords == [i \in 1..101 |-> IF i % 2 = 1 THEN "a" ELSE " "]

\* the inputs of _calculate_confidence: weak, middling and strong combined
\* scores, no, one or two mentions, texts of 1, 7 and 51 words, targets of
\* one and two words, no, half and full consistency
CalibrateScores == {Pct(n) : n \in {-100, -75, -30, 5, 15, 50, 95}}

CalibrateConsistencies == {Zero, Pct(50), One}

UnitNext ==
  /\ steps = 0
  /\ \/ \E text \in LocateTexts, target \in LocateTargets : Locate(text, target)
     \/ \E words \in NegationWordLists, base_score \in NegationScores :
          \E word_idx \in 0..(Len(words) - 1) : Negation(words, word_idx, base_score)
     \/ \E p \in KeywordInputs : KeywordStance(p[1], p[2])
     \/ \E combined_score \in CombinedScores, penalty \in {Zero, Pct(20)} :
          Classified(combined_score, penalty)
     \/ \E compound \in CompoundScores :
          ClassifySentiment(ScoreVector(compound, Pct(30), Pct(40), Pct(30)))
     \/ \E combined_score \in CalibrateScores, mention_count \in 0..2,
           text \in {TxtHi, TxtSevenWords, TxtManyWords}, target \in {TxtBob, TxtNewYork},
           consistency \in CalibrateConsistencies :
          Calibrate(combined_score, mention_count, text, target, consistency)
     \/ \E text \in UnitTexts : AnalyzeSentiment(text)
     \/ \E p \in UnitPairs : AnalyzeStance(p[1], p[2])

SpecUnit == Init /\ [][UnitNext]_vars

(***************************************************************************)
(* Properties of the steps (specification SpecUnit)                        *)
(***************************************************************************)
\* w occurs in t at offset p (0-based) and the characters next to the
\* occurrence, where there are any, are not alphanumeric
StartsOccurrence(t, w, p) ==
  /\ p >= 0
  /\ p + Len(w) <= Len(t)
  /\ SubSeq(t, p + 1, p + Len(w)) = w
  /\ (p = 0 \/ ~IsAlnum(t[p]))
  /\ (p + Len(w) = Len(t) \/ ~IsAlnum(t[p + Len(w) + 1]))

\* the words of a target
SubWords(target) == Range(Split(target))

\* C11: the list the target locator returns is strictly increasing, and
\* every position in it starts an occurrence, in the lower-cased text, of
\* the lower-cased target or of one of its words, with no letter or digit
\* right before or right after it; 'Pineapple is good but Apple is better.'
\* holds exactly one mention of 'Apple'.
C11_MentionsSortedAndBounded ==
  probe.op = "locate" =>
    LET positions == probe.positions
        t == Lower(probe.text)
        w == Lower(probe.target)
    IN /\ \A i \in 1..(Len(positions) - 1) : positions[i] < positions[i + 1]
       /\ \A i \in 1..Len(positions) :
            \E x \in {w} \cup SubWords(w) : StartsOccurrence(t, x, positions[i])
       /\ (probe.text = TxtPineapple /\ probe.target = TxtApple) => Len(positions) = 1

\* 'Apple' in 'Pineapple is good but Apple is better.': found once, at 22
C11_Witness ==
  /\ probe.op = "locate"
  /\ probe.text = TxtPineapple
  /\ probe.target = TxtApple
  /\ probe.positions = <<22>>

\* the offsets where the whole target occurs
ExactMatches(text, target) ==
  {p \in 0..Len(text) : StartsOccurrence(Lower(text), Lower(target), p)}

\* C20: in the list returned for a target of several words, two distinct
\* positions of which at least one is no occurrence of the whole target are
\* at least len(target) characters apart; a word of the target inside an
\* occurrence of the whole target is not counted again.
C20_SubwordNotCountedTwice ==
  (probe.op = "locate" /\ Len(Split(probe.target)) > 1) =>
    LET positions == Range(probe.positions)
        exact == ExactMatches(probe.text, probe.target)
        n == Len(probe.target)
    IN /\ \A p \in positions, q \in positions :
            (p # q /\ (p \notin exact \/ q \notin exact)) => Abs(p - q) >= n
       /\ \A e \in exact, q \in positions : (e < q /\ q < e + n) => q \in exact

\* 'aaa B' in 'aaa B aaa': the whole target at 0, its word 'aaa' again at 6
C20_Witness ==
  /\ probe.op = "locate"
  /\ probe.text = <<"a","a","a"," ","B"," ","a","a","a">>
  /\ probe.target = <<"a","a","a"," ","B">>
  /\ probe.positions = <<0, 6>>

\* a negation word, punctuation around it aside
IsNegationWord(word) == StripPunctuation(word) \in NEGATION_WORDS

\* C12: if one of the up to 3 words right before the indicator is a negation
\* word, _apply_negation returns exactly the negative of the score it is
\* given, once, however many negation words there are; otherwise it returns
\* the score unchanged.  The keyword score of 'I don't love Apple' is
\* negative.
C12_NegationFlipsOnce ==
  /\ probe.op = "negation" =>
       LET negated == \E k \in 1..3 :
                        /\ probe.word_idx - k >= 0
                        /\ IsNegationWord(probe.words[probe.word_idx - k + 1])
       IN probe.score = IF negated THEN RNeg(probe.base_score) ELSE probe.base_score
  /\ (probe.op = "keyword" /\ probe.text = TxtDontLoveApple) => RLt(probe.score, Zero)
  /\ (probe.op = "keyword" /\ probe.text = TxtLoveApple) => RLt(Zero, probe.score)

\* two negation words before the indicator: one flip
C12_Witness ==
  /\ probe.op = "negation"
  /\ probe.words = <<<<"n","o","t">>, <<"d","o","n","'","t",",">>, <<"l","o","v","e">>>>
  /\ probe.word_idx = 2
  /\ probe.score = RNeg(probe.base_score)

\* the label that goes with a combined score
StanceLabelOf(combined_score) ==
  IF RLt(Pct(12), combined_score) THEN "supportive"
  ELSE IF RLt(combined_score, Pct(-12)) THEN "opposing"
  ELSE "neutral"

\* C13: in every result of analyze_stance with at least one mention, on the
\* normal and on the truncated path, the label classifies the result's own
\* combined_score: supportive iff combined_score > 0.12, opposing iff
\* combined_score < -0.12, neutral otherwise, both boundaries included.
C13_StanceLabelMatchesScore ==
  /\ (last.op = "stance" /\ last.result.target_mentions >= 1) =>
       last.result.stance = StanceLabelOf(last.result.combined_score)
  /\ probe.op = "classified" =>
       probe.result.stance = StanceLabelOf(probe.result.combined_score)

\* a result on the truncated path whose combined score is exactly 0.12
C13_Witness ==
  /\ probe.op = "classified"
  /\ probe.result.combined_score = Pct(12)
  /\ probe.result.warning = WarnTruncated
  /\ probe.result.stance = "neutral"

\* the label is the one the two comparisons of the compound score select
SentimentClassifiedAs(compound, sentiment, positive, negative) ==
  sentiment = IF positive THEN "positive" ELSE IF negative THEN "negative" ELSE "normal"

\* C14 as stated: positive iff compound > 0.05, negative iff compound < -0.05,
\* normal otherwise: a compound of exactly 0.05 or -0.05 is normal.
C14_Original ==
  /\ last.op = "sentiment" =>
       LET compound == last.result.scores.compound
       IN SentimentClassifiedAs(compound, last.result.sentiment,
                                RLt(Pct(5), compound), RLt(compound, Pct(-5)))
  /\ probe.op = "classify_sentiment" =>
       LET compound == probe.scores.compound
       IN SentimentClassifiedAs(compound, probe.sentiment,
                                RLt(Pct(5), compound), RLt(compound, Pct(-5)))

\* C14 (amended): the sentiment path compares the compound score with the
\* threshold 0.05 inclusively, unlike the stance path: positive iff
\* compound >= 0.05, negative iff compound <= -0.05, normal otherwise; so the
\* label is normal whenever |compound| < 0.05, and a compound of exactly 0.05
\* is positive, of exactly -0.05 negative.
C14_SentimentLabelMatchesCompound ==
  /\ last.op = "sentiment" =>
       LET compound == last.result.scores.compound
       IN SentimentClassifiedAs(compound, last.result.sentiment,
                                RLe(Pct(5), compound), RLe(compound, Pct(-5)))
  /\ probe.op = "classify_sentiment" =>
       LET compound == probe.scores.compound
       IN SentimentClassifiedAs(compound, probe.sentiment,
                                RLe(Pct(5), compound), RLe(compound, Pct(-5)))

\* a text scored with a compound of exactly 0.05 is positive
C14_Witness ==
  /\ last.op = "sentiment"
  /\ last.text = TxtLoveBob
  /\ last.result.scores.compound = Pct(5)
  /\ last.result.sentiment = "positive"

\* the value held within [0.1, 1.0]
Clamp(x) == RMax(Pct(10), RMin(One, x))

\* the reference procedure of the claim: every step is followed by a clamp
ReferenceConfidence(combined_score, mention_count, word_count, target_word_count, consistency) ==
  LET mentions == Clamp(IF mention_count > 1 THEN RAdd(RAbs(combined_score), Pct(10))
                        ELSE RAbs(combined_score))
      consistent == Clamp(RMul(mentions, consistency))
      length == Clamp(IF word_count < 5 THEN RSub(consistent, Pct(20))
                      ELSE IF word_count > 50 THEN RAdd(consistent, Pct(10))
                      ELSE consistent)
      words == Clamp(IF target_word_count > 1 THEN RAdd(length, Pct(5)) ELSE length)
  IN Clamp(IF RLt(Pct(70), RAbs(combined_score)) THEN RAdd(words, Pct(10)) ELSE words)

\* the procedure with the bounds the source has: the ceiling 1.0 after an
\* addition, the floor 0.1 after the subtraction, both at the end
BoundedConfidence(combined_score, mention_count, word_count, target_word_count, consistency) ==
  LET mentions == IF mention_count > 1 THEN RMin(One, RAdd(RAbs(combined_score), Pct(10)))
                  ELSE RAbs(combined_score)
      consistent == RMul(mentions, consistency)
      length == IF word_count < 5 THEN RMax(Pct(10), RSub(consistent, Pct(20)))
                ELSE IF word_count > 50 THEN RMin(One, RAdd(consistent, Pct(10)))
                ELSE consistent
      words == IF target_word_count > 1 THEN RMin(One, RAdd(length, Pct(5))) ELSE length
  IN Clamp(IF RLt(Pct(70), RAbs(combined_score)) THEN RMin(One, RAdd(words, Pct(10)))
           ELSE words)

\* a calibration with at least one mention
Calibrated == probe.op = "calibrate" /\ probe.mention_count >= 1

ProbeReference ==
  ReferenceConfidence(probe.combined_score, probe.mention_count, Len(Split(probe.text)),
                      Len(Split(probe.target)), probe.consistency)

\* C19 as stated: with at least one mention the running value never leaves
\* [0.1, 1.0] between the steps and the final value equals the reference
\* that clamps after every step.
C19_Original ==
  Calibrated =>
    /\ \A i \in 1..Len(probe.running) :
         RLe(Pct(10), probe.running[i]) /\ RLe(probe.running[i], One)
    /\ probe.confidence = ProbeReference

\* C19 (amended): with at least one mention the calibration starts from
\* |combined_score| and applies, in order, the mention-count, consistency,
\* word-count, target-specificity and clear-stance adjustments, holding the
\* running value under the ceiling 1.0 after every addition and over the
\* floor 0.1 only after the word-count subtraction, and clamps the final value
\* to [0.1, 1.0].  The running value never leaves [0, 1.0]; it may be below
\* 0.1 between steps.  The final value is at most the reference that clamps
\* after every step, and equals it whenever no running value is below 0.1.
C19_CalibrationBounds ==
  Calibrated =>
    /\ \A i \in 1..Len(probe.running) :
         RLe(Zero, probe.running[i]) /\ RLe(probe.running[i], One)
    /\ probe.confidence =
         BoundedConfidence(probe.combined_score, probe.mention_count,
                           Len(Split(probe.text)), Len(Split(probe.target)),
                           probe.consistency)
    /\ RLe(probe.confidence, ProbeReference)
    /\ (\A i \in 1..Len(probe.running) : RLe(Pct(10), probe.running[i]))
         => probe.confidence = ProbeReference

\* a weak score and a target of two words: the running value starts below
\* the floor and the final value stays under the reference
C19_Witness ==
  /\ Calibrated
  /\ probe.combined_score = Pct(5)
  /\ RLt(probe.running[1], Pct(10))
  /\ RLt(probe.confidence, ProbeReference)

(***************************************************************************)
(* The cache protocol (specification Spec)                                 *)
(***************************************************************************)
\* the key a call looks up
KeyOf(call) ==
  IF call.op = "sentiment" THEN generate_sentiment_key(call.text)
  ELSE generate_stance_key(call.text, call.target)

\* a call of a classifier whose inputs are not empty
NonEmptyCall(call) ==
  \/ call.op = "sentiment" /\ ~IsBlank(call.text)
  \/ call.op = "stance" /\ ~IsBlank(call.text) /\ ~IsBlank(call.target)

\* what was stored, and when: the access statistics of an entry aside
Stored(c) ==
  {[key |-> c.entries[i].key, data |-> c.entries[i].data,
    created_at |-> c.entries[i].created_at, expires_at |-> c.entries[i].expires_at] :
     i \in 1..Len(c.entries)}

\* the entries under the key that have not expired
Live(c, key, t) == {e \in Stored(c) : e.key = key /\ t <= e.expires_at}

PolarityError == [kind |-> "exception"]

\* a call that raised stores a fallback result before it gives up
C16_Mutant_FallbackStored(op, text, target, cache_key, got, fragments) ==
  /\ got.value = NoResult
  /\ fragments # {}
  /\ last' = Call(op, text, target, PolarityError, FALSE, {})
  /\ cache' = CacheManager_set(got.cache, cache_key,
                               IF op = "sentiment" THEN SentimentFallback(WarnEmptyText)
                               ELSE StanceFallback(target, WarnEmptyText), NoTtl, now)
  /\ steps' = steps + 1
  /\ UNCHANGED <<now, vader, answers, pending, probe, _cache_instance>>

\* a call whose lookup missed and whose polarity_scores raised: nothing in
\* the services catches the exception, so the call ends before its
\* cache_manager.set
Raised(op, text, target, cache_key, got, fragments) ==
  /\ got.value = NoResult
  /\ fragments # {}
  /\ last' = Call(op, text, target, PolarityError, FALSE, {})
  /\ cache' = got.cache
  /\ steps' = steps + 1
  /\ UNCHANGED <<now, vader, answers, pending, probe, _cache_instance>>

\* analyze_sentiment(text) when the primitive raises
AnalyzeSentimentRaises(text) ==
  /\ ~IsBlank(text)
  /\ Raised("sentiment", text, <<>>, generate_sentiment_key(text),
            CacheManager_get(cache, generate_sentiment_key(text), now),
            SentimentPolarityInputs(text))

\* analyze_stance(text, target) when the primitive raises
AnalyzeStanceRaises(text, target) ==
  /\ ~IsBlank(text)
  /\ ~IsBlank(target)
  /\ Raised("stance", text, target, generate_stance_key(text, target),
            CacheManager_get(cache, generate_stance_key(text, target), now),
            StancePolarityInputs(text, target))

\* the operations one behaviour performs when the primitive may raise
MaxFaultSteps == 3

FaultTexts == {TxtHi, TxtLoveBob, TxtSevenOfTen}

FaultPairs == {<<TxtLoveBob, TxtBob>>, <<TxtBobBob, TxtBob>>, <<TxtHi, TxtBob>>}

FaultNext ==
  /\ steps < MaxFaultSteps
  /\ \/ \E text \in FaultTexts : AnalyzeSentiment(text)
     \/ \E text \in FaultTexts : AnalyzeSentimentRaises(text)
     \/ \E p \in FaultPairs : AnalyzeStance(p[1], p[2])
     \/ \E p \in FaultPairs : AnalyzeStanceRaises(p[1], p[2])
     \/ ClearCache
     \/ \E d \in TickInputs : Tick(d)

SpecFault == Init /\ [][FaultNext]_vars

\* the same call again
SameCall(a, b) == a.op = b.op /\ a.text = b.text /\ a.target = b.target

\* C16: when the polarity primitive raises during analyze_sentiment or
\* analyze_stance, the call returns no result and writes nothing to the
\* cache: no entry is added and none is live under the key of the call, so
\* the same call made next does not hit the cache.
C16_FaultLeavesNoEntry ==
  [][/\ (steps' = steps + 1 /\ last'.result = PolarityError) =>
          /\ answers' = answers
          /\ Stored(cache') \subseteq Stored(cache)
          /\ Live(cache', KeyOf(last'), now) = {}
     /\ (steps' = steps + 1 /\ last.result = PolarityError /\ SameCall(last, last')) =>
          ~last'.hit]_vars

\* a call that raised while the cache held the result of another call, and
\* left the cache as it was
C16_Witness ==
  /\ last.op = "stance"
  /\ last.result = PolarityError
  /\ Len(cache.entries) = 1
  /\ answers # {}

(***************************************************************************)
(* Concurrent calls (specification SpecConcurrent).  CacheManager.get and  *)
(* CacheManager.set each run under the cache's lock; a call that missed    *)
(* computes its result between the two, while other calls may run.         *)
(***************************************************************************)
\* the request threads
Threads == {1, 2}

\* a call that has looked its key up and missed
PendingCall(op, text, target, cache_key, fragments) ==
  [op |-> op, text |-> text, target |-> target, cache_key |-> cache_key,
   fragments |-> fragments]

\* the first part of a call: the checks for empty inputs and the lookup
LookedUp(thread, op, text, target, cache_key, got, fragments) ==
  IF got.value # NoResult
  THEN /\ Returned(op, text, target, got.value, TRUE, {})
       /\ cache' = got.cache
       /\ UNCHANGED <<vader, pending>>
  ELSE /\ pending' = pending @@ (thread :> PendingCall(op, text, target, cache_key, fragments))
       /\ cache' = got.cache
       /\ steps' = steps + 1
       /\ UNCHANGED <<now, vader, last, answers>>

\* a thread enters analyze_sentiment(text)
BeginSentiment(thread, text) ==
  /\ thread \notin DOMAIN pending
  /\ UNCHANGED <<probe, _cache_instance>>
  /\ IF IsBlank(text)
     THEN /\ Returned("sentiment", text, <<>>, SentimentFallback(WarnEmptyText), FALSE, {})
          /\ UNCHANGED <<cache, vader, pending>>
     ELSE LookedUp(thread, "sentiment", text, <<>>, generate_sentiment_key(text),
                   CacheManager_get(cache, generate_sentiment_key(text), now),
                   SentimentPolarityInputs(text))

\* a thread enters analyze_stance(text, target)
BeginStance(thread, text, target) ==
  /\ thread \notin DOMAIN pending
  /\ UNCHANGED <<probe, _cache_instance>>
  /\ IF IsBlank(text)
     THEN /\ Returned("stance", text, target, StanceFallback(target, WarnEmptyText), FALSE, {})
          /\ UNCHANGED <<cache, vader, pending>>
     ELSE IF IsBlank(target)
     THEN /\ Returned("stance", text, target,
                      StanceFallback(IF target = None THEN <<>> ELSE target, WarnEmptyTarget),
                      FALSE, {})
          /\ UNCHANGED <<cache, vader, pending>>
     ELSE LookedUp(thread, "stance", text, target, generate_stance_key(text, target),
                   CacheManager_get(cache, generate_stance_key(text, target), now),
                   StancePolarityInputs(text, target))

\* the function without the thread
Without(f, thread) == [t \in DOMAIN f \ {thread} |-> f[t]]

\* the second part of a call that missed: the result is computed, stored
\* under the key looked up, and returned
Finish(thread) ==
  /\ thread \in DOMAIN pending
  /\ UNCHANGED <<probe, _cache_instance>>
  /\ pending' = Without(pending, thread)
  /\ LET call == pending[thread]
     IN \E v \in Extensions(vader, call.fragments) :
          Computed(call.op, call.text, call.target, call.cache_key,
                   IF call.op = "sentiment" THEN SentimentCompute(v, call.text)
                   ELSE StanceCompute(v, call.text, call.target),
                   call.fragments, cache, v)

\* the steps the threads take together
MaxConcurrentSteps == 4

ConcurrentTexts == {TxtHi, TxtLoveBob}

ConcurrentPairs ==
  {<<TxtHi, TxtEmpty>>, <<TxtLoveBob, TxtBob>>, <<TxtHi, TxtLoveBobBob>>,
   <<TxtHiLoveBob, TxtBob>>}

ConcurrentNext ==
  /\ steps < MaxConcurrentSteps
  /\ \/ \E thread \in Threads, text \in ConcurrentTexts : BeginSentiment(thread, text)
     \/ \E thread \in Threads, p \in ConcurrentPairs : BeginStance(thread, p[1], p[2])
     \/ \E thread \in Threads : Finish(thread)

SpecConcurrent == Init /\ [][ConcurrentNext]_vars

\* the results the call can have by its own arguments, whatever the
\* primitive answers for the fragments it has not been asked about yet
OwnResults(call) ==
  IF call.op = "sentiment"
  THEN {SentimentCompute(v, call.text) :
          v \in Extensions(vader, SentimentPolarityInputs(call.text))}
  ELSE {StanceCompute(v, call.text, call.target) :
          v \in Extensions(vader, StancePolarityInputs(call.text, call.target))}

\* C17: the result of a call is the same under every interleaving with
\* concurrent calls of either classifier: it is the result the call has by
\* its own arguments.
C17_ResultIndependentOfInterleaving ==
  NonEmptyCall(last) => last.result \in OwnResults(last)

(***************************************************************************)
(* The two analysis endpoints (specification SpecHttp): the request model, *)
(* the router's own checks, the service call and the exception handlers.   *)
(***************************************************************************)
\* the answer to a request: its status, the keys of its JSON body, and
\* whether the classifier service was called
Response(path, text, target, status, body, invoked) ==
  [op |-> "http", path |-> path, text |-> text, target |-> target,
   status |-> status, body |-> body, invoked |-> invoked]

\* whether the request model refuses the field before the router runs; the
\* request models are not part of the sources, so a field of whitespace may
\* or may not pass them, and any other field passes
RequestModelRejects(field) == IF Strip(field) = <<>> THEN BOOLEAN ELSE {FALSE}

ErrorBody == {"error", "message", "details", "request_id", "timestamp"}

\* exception_handlers.validation_exception_handler
validation_exception_handler(path, text, target) ==
  Response(path, text, target, 400, ErrorBody, FALSE)

\* exception_handlers.text_validation_exception_handler
text_validation_exception_handler(path, text, target) ==
  Response(path, text, target, 400, ErrorBody, FALSE)

\* exception_handlers.target_validation_exception_handler
target_validation_exception_handler(path, text, target) ==
  Response(path, text, target, 400, ErrorBody, FALSE)

\* a request that is answered without the service being called
Rejected(response) ==
  /\ probe' = response
  /\ steps' = steps + 1
  /\ UNCHANGED <<cache, now, vader, last, answers, pending, _cache_instance>>

\* POST /sentiment-analysis
PostSentimentAnalysis(text) ==
  \E refused \in RequestModelRejects(text) :
    IF refused
    THEN Rejected(validation_exception_handler("/sentiment-analysis", text, <<>>))
    ELSE IF Strip(text) = <<>>
    THEN Rejected(text_validation_exception_handler("/sentiment-analysis", text, <<>>))
    ELSE /\ probe' = Response("/sentiment-analysis", text, <<>>, 200,
                              {"sentiment", "confidence", "request_id", "timestamp"}, TRUE)
         /\ UNCHANGED <<pending, _cache_instance>>
         /\ Looked("sentiment", text, <<>>, generate_sentiment_key(text),
                   CacheManager_get(cache, generate_sentiment_key(text), now),
                   SentimentPolarityInputs(text))

\* POST /stance-analysis
PostStanceAnalysis(text, target) ==
  \E refused \in RequestModelRejects(text) \cup RequestModelRejects(target) :
    IF refused
    THEN Rejected(validation_exception_handler("/stance-analysis", text, target))
    ELSE IF Strip(text) = <<>>
    THEN Rejected(text_validation_exception_handler("/stance-analysis", text, target))
    ELSE IF Strip(target) = <<>>
    THEN Rejected(target_validation_exception_handler("/stance-analysis", text, target))
    ELSE /\ probe' = Response("/stance-analysis", text, target, 200,
                              {"stance", "confidence", "target", "request_id", "timestamp"}, TRUE)
         /\ UNCHANGED <<pending, _cache_instance>>
         /\ Looked("stance", text, target, generate_stance_key(text, target),
                   CacheManager_get(cache, generate_stance_key(text, target), now),
                   StancePolarityInputs(text, target))

\* the requests sent
MaxRequests == 3

TxtSpaces == <<" "," "," ">>

TxtNewlines == <<"\n","\n","\n">>

RequestTexts == {TxtSpaces, TxtNewlines, TxtBlank, TxtHi, TxtLoveBob, TxtSoGood}

RequestTargets == {TxtSpaces, TxtBlank, TxtBob}

HttpNext ==
  /\ steps < MaxRequests
  /\ \/ \E text \in RequestTexts : PostSentimentAnalysis(text)
     \/ \E text \in RequestTexts, target \in RequestTargets : PostStanceAnalysis(text, target)

SpecHttp == Init /\ [][HttpNext]_vars

\* one or more characters, all of them whitespace
WhitespaceOnly(field) == field # <<>> /\ Strip(field) = <<>>

\* C18: a request to either endpoint whose text or target is whitespace-only
\* is rejected, before the classifier service is called, with status 422
\* and an error body carrying error, message and request_id.
C18_WhitespaceRejectedWith422 ==
  (/\ probe.op = "http"
   /\ \/ WhitespaceOnly(probe.text)
      \/ probe.path = "/stance-analysis" /\ WhitespaceOnly(probe.target))
  => /\ ~probe.invoked
     /\ probe.status = 422
     /\ {"error", "message", "request_id"} \subseteq probe.body

(***************************************************************************)
(* Keyword scoring, one function at a time (specification SpecKeyword)     *)
(***************************************************************************)
\* StanceService._calculate_keyword_score(words, target_pos)
KeywordScore(words, target_pos) ==
  Observed([op |-> "keyword_score", words |-> words, target_pos |-> target_pos,
            score |-> _calculate_keyword_score(words, target_pos)])

\* StanceService._apply_modifiers(words, word_idx, base_score), the words
\* being those of a text as _analyze_keyword_based_stance splits it
Modifiers(text, word_idx, base_score) ==
  Observed([op |-> "modifiers", words |-> Split(text), word_idx |-> word_idx,
            base_score |-> base_score,
            score |-> _apply_modifiers(Split(text), word_idx, base_score)])

\* the longest context scored
MaxKeywordWords == 23

\* n words, all 'x' but the one at index at (from 0)
OneWordAmong(n, at, word) == [i \in 1..n |-> IF i = at + 1 THEN word ELSE <<"x">>]

WordLove == <<"l","o","v","e">>

WordHate == <<"h","a","t","e">>

\* contexts with one indicator, and short ones with modifiers and negation
KeywordWordLists ==
  {OneWordAmong(MaxKeywordWords, at, word) :
     at \in 0..(MaxKeywordWords - 1), word \in {WordLove, WordHate}}
    \cup {<<<<"n","o","t">>, <<"r","e","a","l","l","y">>, WordLove, <<"x">>>>,
          <<<<"r","e","a","l","l","y">>, WordLove>>,
          <<<<"s","l","i","g","h","t","l","y">>, WordHate, <<"x">>>>,
          <<WordLove, <<"x">>, WordHate, <<"v","e","r","y">>>>,
          <<<<"n","e","v","e","r">>, <<"x">>, <<"v","e","r","y">>, <<"b","a","d","!">>>>}

\* the longest text given to _apply_modifiers, in words
MaxModifierWords == 4

\* an intensifier, one with punctuation, a diminisher, an indicator, a word
ModifierVocabulary ==
  {<<"v","e","r","y">>, <<"r","e","a","l","l","y","!">>, <<"s","l","i","g","h","t","l","y">>,
   <<"g","o","o","d">>, <<"x">>}

RECURSIVE JoinWords(_)
\* ' '.join(words)
JoinWords(words) ==
  IF Len(words) = 0 THEN <<>>
  ELSE IF Len(words) = 1 THEN words[1]
  ELSE words[1] \o <<" ">> \o JoinWords(Tail(words))

\* texts of the vocabulary, and every diminisher next to and one word away
\* from an indicator, on either side
ModifierTexts ==
  {JoinWords(ws) : ws \in UNION {[1..k -> ModifierVocabulary] : k \in 1..MaxModifierWords}}
    \cup UNION {{JoinWords(<<d, <<"g","o","o","d">>>>),
                 JoinWords(<<<<"g","o","o","d">>, d>>),
                 JoinWords(<<d, <<"x">>, <<"g","o","o","d">>>>),
                 JoinWords(<<<<"g","o","o","d">>, <<"x">>, d>>)} : d \in DIMINISHERS}

\* distance weights 1, 1/2 and their negatives
ModifierScores == {One, R(1, 2), R(-1, 2)}

KeywordNext ==
  /\ steps = 0
  /\ \/ \E words \in KeywordWordLists :
          \E target_pos \in 0..(Len(words) - 1) : KeywordScore(words, target_pos)
     \/ \E text \in ModifierTexts, base_score \in ModifierScores :
          \E word_idx \in 0..(Len(Split(text)) - 1) : Modifiers(text, word_idx, base_score)

SpecKeyword == Init /\ [][KeywordNext]_vars

\* what the word at index i (from 0) adds to the accumulated score of a
\* target at target_pos: +-1/(d+1) for an indicator at distance d, then the
\* modifiers and the negation; nothing for another word
Contribution(words, i, target_pos) ==
  LET word == StripPunctuation(words[i + 1])
      d == IF i >= target_pos THEN i - target_pos ELSE target_pos - i
  IN IF word \in POSITIVE_INDICATORS
     THEN _apply_negation(words, i, _apply_modifiers(words, i, R(1, d + 1)))
     ELSE IF word \in NEGATIVE_INDICATORS
     THEN _apply_negation(words, i, _apply_modifiers(words, i, R(-1, d + 1)))
     ELSE Zero

\* the normalised score of the words at most `before` positions before and
\* `after` positions after the target
WindowScore(words, target_pos, before, after) ==
  LET accumulated ==
        RSum([k \in 1..Len(words) |->
                IF target_pos - (k - 1) <= before /\ (k - 1) - target_pos <= after
                THEN Contribution(words, k - 1, target_pos) ELSE Zero])
  IN RMax(RNeg(One), RMin(One, RDivInt(accumulated, 2 * KEYWORD_WINDOW_SIZE)))

\* C21: keyword scoring counts every indicator at word distance d <= 10
\* before or after the target position with +-1/(d+1), and no word farther
\* away.
C21_WindowTenEitherSide ==
  probe.op = "keyword_score"
    => probe.score = WindowScore(probe.words, probe.target_pos,
                                 KEYWORD_WINDOW_SIZE, KEYWORD_WINDOW_SIZE)

\* the first of the words at i-2, i-1, i+1, i+2, in that order, that is an
\* intensifier or a diminisher; <<>> if there is none
FirstModifier(words, i) ==
  LET scanned == SelectSeq(<<i - 2, i - 1, i + 1, i + 2>>,
                           LAMBDA j : /\ j >= 0
                                      /\ j < Len(words)
                                      /\ StripPunctuation(words[j + 1])
                                           \in INTENSIFIERS \cup DIMINISHERS)
  IN IF scanned = <<>> THEN <<>> ELSE StripPunctuation(words[scanned[1] + 1])

\* 1.5 for an intensifier, 0.7 for a diminisher, 1 without a modifier
ModifierFactor(words, i) ==
  IF FirstModifier(words, i) = <<>> THEN One
  ELSE IF FirstModifier(words, i) \in INTENSIFIERS THEN R(3, 2)
  ELSE R(7, 10)

\* -1 if one of the up to 3 words before index i is a negation word, else 1
NegationFactor(words, i) ==
  IF \E j \in 0..(i - 1) : i - j <= 3 /\ IsNegationWord(words[j + 1])
  THEN RNeg(One) ELSE One

\* +-1/(d+1) times the modifier factor times the negation factor
ModifiedContribution(words, i, target_pos) ==
  LET word == StripPunctuation(words[i + 1])
      d == IF i >= target_pos THEN i - target_pos ELSE target_pos - i
      sign == IF word \in POSITIVE_INDICATORS THEN 1
              ELSE IF word \in NEGATIVE_INDICATORS THEN -1 ELSE 0
  IN RMul(NegationFactor(words, i), RMul(ModifierFactor(words, i), R(sign, d + 1)))

\* C22: the words at i-2, i-1, i+1, i+2 are scanned in that order and the
\* first intensifier or diminisher decides: the score times 1.5, times 0.7,
\* or unchanged without one.  In a keyword score the modified contribution
\* is then negated: a negated intensified indicator adds -1.5 times its
\* distance weight.
C22_FirstModifierDecides ==
  /\ probe.op = "modifiers"
       => probe.score = RMul(probe.base_score, ModifierFactor(probe.words, probe.word_idx))
  /\ (probe.op = "keyword_score" /\ Len(probe.words) < KEYWORD_WINDOW_SIZE)
       => probe.score =
            RMax(RNeg(One),
                 RMin(One,
                      RDivInt(RSum([k \in 1..Len(probe.words) |->
                                      ModifiedContribution(probe.words, k - 1,
                                                           probe.target_pos)]),
                              2 * KEYWORD_WINDOW_SIZE)))

\* 'not really love x' scored for the target at index 3: -1.5 * 1/2 / 20;
\* 'slightly good very' has the diminisher decide for 'good'
C22_Witness ==
  \/ /\ probe.op = "keyword_score"
     /\ probe.words = <<<<"n","o","t">>, <<"r","e","a","l","l","y">>, WordLove, <<"x">>>>
     /\ probe.target_pos = 3
     /\ probe.score = R(-3, 80)
  \/ /\ probe.op = "modifiers"
     /\ probe.words = <<<<"s","l","i","g","h","t","l","y">>, <<"g","o","o","d">>, <<"v","e","r","y">>>>
     /\ probe.word_idx = 1
     /\ probe.score = RMul(probe.base_score, R(7, 10))

\* the diminisher entry occurs in the words within 2 words of index i: its
\* words stand in a row, none of them at i, all of them at most 2 away
DiminisherNear(words, i, entry) ==
  LET entry_words == Split(entry)
  IN \E first \in 0..(Len(words) - 1) :
       \A k \in 1..Len(entry_words) :
         /\ first + k - 1 < Len(words)
         /\ first + k - 1 # i
         /\ first + k - 1 >= i - 2
         /\ first + k - 1 <= i + 2
         /\ StripPunctuation(words[first + k]) = entry_words[k]

\* no intensifier among the words at most 2 away from index i
NoIntensifierNear(words, i) ==
  \A j \in 0..(Len(words) - 1) :
    (j # i /\ j >= i - 2 /\ j <= i + 2) => StripPunctuation(words[j + 1]) \notin INTENSIFIERS

\* C23: every entry of the diminisher lexicon, the two-word entries 'kind
\* of', 'sort of' and 'a bit' included, scales the contribution of an
\* indicator by 0.7 when it occurs within 2 words of the indicator and no
\* intensifier is met.
C23_EveryDiminisherScales ==
  (/\ probe.op = "modifiers"
   /\ NoIntensifierNear(probe.words, probe.word_idx)
   /\ \E entry \in DIMINISHERS : DiminisherNear(probe.words, probe.word_idx, entry))
  => probe.score = RMul(probe.base_score, R(7, 10))

(***************************************************************************)
(* Signal fusion and consistency (specification SpecSignal)                *)
(***************************************************************************)
\* StanceService._combine_stance_signals(sentiment_score, keyword_score)
Combine(sentiment_score, keyword_score) ==
  Observed([op |-> "combine", sentiment_score |-> sentiment_score,
            keyword_score |-> keyword_score,
            score |-> _combine_stance_signals(sentiment_score, keyword_score)])

\* the windows _check_stance_consistency has the primitive score
ConsistencyPolarityInputs(text, positions) ==
  IF Len(positions) <= 1 THEN {}
  ELSE {ContextWindow(text, positions[k], CONTEXT_WINDOW) : k \in 1..Len(positions)}

\* StanceService._check_stance_consistency(text, positions)
Consistency(text, positions) ==
  \E v \in Extensions(vader, ConsistencyPolarityInputs(text, positions)) :
    /\ vader' = v
    /\ probe' = [op |-> "consistency", text |-> text, positions |-> positions,
                 score |-> _check_stance_consistency(v, text, positions)]
    /\ steps' = steps + 1
    /\ UNCHANGED <<cache, now, last, answers, pending, _cache_instance>>

\* signals on, next to and away from the strength 0.3, in hundredths
SignalScores == {Pct(n) : n \in {-100, -80, -31, -30, -29, 0, 29, 30, 31, 60, 80, 100}}

\* 'Apple is great. Apple is amazing. Apple is wonderful.'
TxtThreeApples == <<"A","p","p","l","e"," ","i","s"," ","g","r","e","a","t","."," ","A","p","p","l","e"," ","i","s"," ","a","m","a","z","i","n","g","."," ","A","p","p","l","e"," ","i","s"," ","w","o","n","d","e","r","f","u","l",".">>

\* 'Bob a a ... a Bob', the second Bob at character 120
TxtFarBobs == TxtBob \o [i \in 1..117 |-> IF i % 2 = 1 THEN " " ELSE "a"] \o TxtBob

\* the texts checked, each with the positions of its mentions
ConsistencyInputs ==
  {<<TxtThreeApples, <<0, 16, 32>>>>, <<TxtThreeApples, <<0>>>>, <<TxtThreeApples, <<>>>>,
   <<TxtFarBobs, <<0, 120>>>>, <<TxtFarBobs, <<0, 60, 120>>>>, <<TxtLoveBob, <<7, 7>>>>}

SignalNext ==
  /\ steps = 0
  /\ \/ \E sentiment_score \in SignalScores, keyword_score \in SignalScores :
          Combine(sentiment_score, keyword_score)
     \/ \E p \in ConsistencyInputs : Consistency(p[1], p[2])

SpecSignal == Init /\ [][SignalNext]_vars

\* x held within [-1, 1]
ClampUnit(x) == IF RLt(One, x) THEN One ELSE IF RLt(x, RNeg(One)) THEN RNeg(One) ELSE x

\* the signals are both stronger than 0.3 and of the same sign
StrongAgreement(context, keyword) ==
  /\ RLt(Pct(30), RAbs(context))
  /\ RLt(Pct(30), RAbs(keyword))
  /\ RLt(Zero, RMul(context, keyword))

\* C24: combined = clamp(m * (0.4 * context + 0.6 * keyword), -1, 1) with
\* m = 1.2 if both signals are stronger than 0.3 and of the same sign, else
\* m = 1; the result is in [-1, 1]; signals of strength exactly 0.3 are not
\* boosted.
C24_SignalFusion ==
  probe.op = "combine"
    => LET context == probe.sentiment_score
           keyword == probe.keyword_score
           weighted == RAdd(RMul(R(4, 10), context), RMul(R(6, 10), keyword))
       IN /\ probe.score = ClampUnit(RMul(IF StrongAgreement(context, keyword)
                                          THEN R(12, 10) ELSE One, weighted))
          /\ RLe(RNeg(One), probe.score)
          /\ RLe(probe.score, One)
          /\ (RAbs(context) = Pct(30) \/ RAbs(keyword) = Pct(30))
               => probe.score = ClampUnit(weighted)

\* 0.3 with 0.8 is not boosted: 0.4 * 0.3 + 0.6 * 0.8 = 0.6
C24_Witness ==
  /\ probe.op = "combine"
  /\ probe.sentiment_score = Pct(30)
  /\ probe.keyword_score = Pct(80)
  /\ probe.score = Pct(60)

\* the compound score of the window of every mention, as the primitive gave it
MentionCompounds(text, positions) ==
  [k \in 1..Len(positions) |->
     polarity_scores(vader, ContextWindow(text, positions[k], CONTEXT_WINDOW)).compound]

\* the population variance: the mean of the squares less the square of the mean
PopulationVariance(xs) ==
  LET mean == RDivInt(RSum(xs), Len(xs))
      mean_of_squares == RDivInt(RSum([k \in 1..Len(xs) |-> RMul(xs[k], xs[k])]), Len(xs))
  IN RSub(mean_of_squares, RMul(mean, mean))

\* C25: consistency is 1.0 with at most one mention; with more it is
\* max(0, 1 - 2 * V), V the population variance of the per-mention compound
\* scores of the 50-character-radius windows; it is always in [0, 1] and is
\* 1.0 when all per-mention compound scores are equal.
C25_ConsistencyFromVariance ==
  probe.op = "consistency"
    => /\ RLe(Zero, probe.score)
       /\ RLe(probe.score, One)
       /\ IF Len(probe.positions) <= 1 THEN probe.score = One
          ELSE LET xs == MentionCompounds(probe.text, probe.positions)
                   rest == RSub(One, RMul(R(2, 1), PopulationVariance(xs)))
               IN /\ probe.score = (IF RLt(rest, Zero) THEN Zero ELSE rest)
                  /\ (\A k \in 1..Len(xs) : xs[k] = xs[1]) => probe.score = One

\* three mentions whose windows were scored 0.8, 0.05 and 0.8: the variance
\* is 0.125 and the consistency 0.75
C25_Witness ==
  /\ probe.op = "consistency"
  /\ Len(probe.positions) = 3
  /\ \E k \in 1..3 : MentionCompounds(probe.text, probe.positions)[k] = Pct(5)
  /\ probe.score = Pct(75)

(***************************************************************************)
(* The CacheManager on its own (specification SpecCache): a cache of a     *)
(* small max_size, filled by a number of sets one second apart, and then   *)
(* any of its operations.                                                  *)
(***************************************************************************)
\* CacheManager(max_size=max_size) at time t
CacheManager_init(max_size, t) == [NewCacheManager(t) EXCEPT !.max_size = max_size]

\* the keys set
CacheKeys == <<"k1", "k2", "k3", "k4", "k5", "k6", "k7", "k8", "k9">>

\* the value given to a set: it names the time and the ttl of the set
SetData(t, ttl) == [set_at |-> t, ttl |-> ttl]

RECURSIVE FilledCache(_, _)
\* CacheManager(max_size) at time 0, then set(CacheKeys[i], ...) at time
\* i - 1 for i = 1..n
FilledCache(max_size, n) ==
  IF n = 0 THEN CacheManager_init(max_size, 0)
  ELSE CacheManager_set(FilledCache(max_size, n - 1), CacheKeys[n],
                        SetData(n - 1, NoTtl), NoTtl, n - 1)

\* the sizes of the caches made
CacheSizes == {1, 2, 3, 8}

InitCache ==
  /\ \E max_size \in CacheSizes : \E n \in 0..max_size :
       /\ cache = FilledCache(max_size, n)
       /\ now = n
  /\ vader = <<>>
  /\ last = NoCall
  /\ answers = {}
  /\ steps = 0
  /\ pending = <<>>
  /\ probe = NoProbe
  /\ _cache_instance = 0

\* an operation of the cache was called at time now: probe holds the call,
\* the cache before it and the value returned
CacheCalled(p, c) ==
  /\ probe' = p
  /\ cache' = c
  /\ steps' = steps + 1
  /\ UNCHANGED <<now, vader, last, answers, pending, _cache_instance>>

\* cache_manager.set(key, value, ttl)
Set(key, ttl) ==
  CacheCalled([op |-> "set", key |-> key, ttl |-> ttl, t |-> now, before |-> cache,
               value |-> NoResult],
              CacheManager_set(cache, key, SetData(now, ttl), ttl, now))

\* cache_manager.get(key)
Get(key) ==
  CacheCalled([op |-> "get", key |-> key, ttl |-> NoTtl, t |-> now, before |-> cache,
               value |-> CacheManager_get(cache, key, now).value],
              CacheManager_get(cache, key, now).cache)

\* cache_manager.delete(key)
Delete(key) ==
  CacheCalled([op |-> "delete", key |-> key, ttl |-> NoTtl, t |-> now, before |-> cache,
               value |-> key \in Keys(cache)],
              CacheManager_delete(cache, key))

\* cache_manager.clear()
Clear ==
  CacheCalled([op |-> "clear", key |-> "", ttl |-> NoTtl, t |-> now, before |-> cache,
               value |-> NoResult],
              CacheManager_clear(cache))

\* cache_manager.resize_cache(new_max_size)
Resize(new_max_size) ==
  CacheCalled([op |-> "resize", key |-> "", ttl |-> NoTtl, t |-> now, before |-> cache,
               value |-> new_max_size],
              resize_cache(cache, new_max_size))

\* cache_manager.optimize_cache()
Optimize ==
  CacheCalled([op |-> "optimize", key |-> "", ttl |-> NoTtl, t |-> now, before |-> cache,
               value |-> NoResult],
              optimize_cache(cache, now))

\* the calls made on a cache
MaxCacheSteps == 3

\* an old key, a later one, a key never set before
CalledKeys == {"k1", "k2", "k9"}

\* ttl=None, ttl=0, a ttl shorter and one longer than the shortest wait
SetTtls == {NoTtl, 0, 1, 3}

ResizeSizes == {0, 1, 2}

\* a short wait; a wait longer than default_ttl and the cleanup interval
Waits == {2, DEFAULT_TTL + 1}

CacheNext ==
  /\ steps < MaxCacheSteps
  /\ \/ \E key \in CalledKeys, ttl \in SetTtls : Set(key, ttl)
     \/ \E key \in CalledKeys : Get(key)
     \/ \E key \in CalledKeys : Delete(key)
     \/ Clear
     \/ \E new_max_size \in ResizeSizes : Resize(new_max_size)
     \/ Optimize
     \/ \E d \in Waits : Tick(d)

SpecCache == InitCache /\ [][CacheNext]_vars

\* C26: whatever set, get, delete, clear, resize_cache and optimize_cache
\* calls were made, the number of stored entries is at most the current
\* max_size.
C26_SizeWithinMaxSize == Len(cache.entries) <= cache.max_size

\* a cache that held as many entries as the new, smaller max_size allows
\* was resized, or a new key was set on a full cache
C26_Witness ==
  \/ /\ probe.op = "resize"
     /\ Len(probe.before.entries) > cache.max_size
     /\ Len(cache.entries) = cache.max_size
  \/ /\ probe.op = "set"
     /\ probe.key \notin Keys(probe.before)
     /\ Len(probe.before.entries) = probe.before.max_size
     /\ probe.key \in Keys(cache)

\* the ttl a set is given, the default standing in for ttl=None only
GivenTtl(data) == IF data.ttl = NoTtl THEN DEFAULT_TTL ELSE data.ttl

\* C27: get(key) returns a stored value only while the current time is at
\* most the time of the set plus the ttl given to that set, the default ttl
\* being used only when ttl is None (an entry set with ttl = 0 is never
\* returned at a later time); a get that finds an expired entry removes it
\* and returns None.
C27_ReturnedOnlyWithinTtl ==
  probe.op = "get"
    => /\ probe.value # NoResult
            => probe.t <= probe.value.set_at + GivenTtl(probe.value)
       /\ (\E i \in 1..Len(probe.before.entries) :
             /\ probe.before.entries[i].key = probe.key
             /\ probe.t > probe.before.entries[i].expires_at)
            => (probe.value = NoResult /\ probe.key \notin Keys(cache))

\* the entries of the cache as a set
EntrySet(c) == {c.entries[i] : i \in 1..Len(c.entries)}

\* C28: a set of a new key on a cache holding max_size entries removes
\* exactly min(size, max(1, max_size // 4)) entries, no retained old entry
\* was accessed earlier than a removed one, and the new key is present
\* afterwards; a set on an existing key or on a cache that is not full
\* removes nothing.
C28_LruEviction ==
  probe.op = "set"
    => LET before == probe.before
           size == Len(before.entries)
           quarter == before.max_size \div 4
           due == IF quarter > 1 THEN quarter ELSE 1
           removed == {e \in EntrySet(before) : e.key \notin Keys(cache)}
           retained == {e \in EntrySet(before) : e.key \in Keys(cache) /\ e.key # probe.key}
       IN /\ probe.key \in Keys(cache)
          /\ IF size = before.max_size /\ probe.key \notin Keys(before)
             THEN /\ Cardinality(removed) = (IF size < due THEN size ELSE due)
                  /\ \A e \in removed, r \in retained : e.last_accessed <= r.last_accessed
             ELSE (probe.key \in Keys(before) \/ size < before.max_size) => removed = {}

\* a new key was set on a full cache whose oldest entry had been read since:
\* an entry created later was removed and the oldest entry is retained
C28_Witness ==
  /\ probe.op = "set"
  /\ probe.key \notin Keys(probe.before)
  /\ Len(probe.before.entries) = probe.before.max_size
  /\ \E e \in EntrySet(probe.before), r \in EntrySet(probe.before) :
       /\ e.key \notin Keys(cache)
       /\ r.key \in Keys(cache)
       /\ r.created_at < e.created_at

(***************************************************************************)
(* get_cache_manager and reset_cache_manager called from several threads   *)
(* (specification SpecSingleton).  The function holds no lock: a thread    *)
(* reads the global, may construct and assign, then reads the global again *)
(* to return it, and other threads run in between.  A CacheManager object  *)
(* is identified by the number of the step that constructed it.            *)
(***************************************************************************)
\* the threads of the pool that runs the service dependencies
PoolThreads == {1, 2, 3}

\* the position of a thread inside get_cache_manager
InGetCacheManager(pc) == [op |-> "get_cache_manager", pc |-> pc]

\* the objects get_cache_manager returned since the last reset
Got(objects) == [op |-> "get_cache_manager", got |-> objects]

GotSoFar == IF probe.op = "get_cache_manager" THEN probe.got ELSE {}

\* `if _cache_instance is None:`
CheckInstance(thread) ==
  /\ thread \notin DOMAIN pending
  /\ pending' = pending @@ (thread :> InGetCacheManager(IF _cache_instance = 0
                                                          THEN "assign" ELSE "return"))
  /\ steps' = steps + 1
  /\ UNCHANGED <<cache, now, vader, last, answers, probe, _cache_instance>>

\* `_cache_instance = CacheManager()`
AssignInstance(thread) ==
  /\ thread \in DOMAIN pending
  /\ pending[thread].pc = "assign"
  /\ _cache_instance' = steps + 1
  /\ pending' = [pending EXCEPT ![thread] = InGetCacheManager("return")]
  /\ steps' = steps + 1
  /\ UNCHANGED <<cache, now, vader, last, answers, probe>>

\* `return _cache_instance`
ReturnInstance(thread) ==
  /\ thread \in DOMAIN pending
  /\ pending[thread].pc = "return"
  /\ probe' = Got(GotSoFar \cup {_cache_instance})
  /\ pending' = Without(pending, thread)
  /\ steps' = steps + 1
  /\ UNCHANGED <<cache, now, vader, last, answers, _cache_instance>>

\* reset_cache_manager(), called while no thread is inside get_cache_manager
ResetInstance ==
  /\ pending = <<>>
  /\ _cache_instance' = 0
  /\ probe' = Got({})
  /\ steps' = steps + 1
  /\ UNCHANGED <<cache, now, vader, last, answers, pending>>

MaxSingletonSteps == 7

SingletonNext ==
  /\ steps < MaxSingletonSteps
  /\ \/ \E thread \in PoolThreads : CheckInstance(thread)
     \/ \E thread \in PoolThreads : AssignInstance(thread)
     \/ \E thread \in PoolThreads : ReturnInstance(thread)
     \/ ResetInstance

SpecSingleton == Init /\ [][SingletonNext]_vars

\* C29: between two calls of reset_cache_manager every call of
\* get_cache_manager returns the same CacheManager object, also when the
\* first calls are made concurrently from several threads.
C29_OneInstanceBetweenResets ==
  probe.op = "get_cache_manager" => Cardinality(probe.got) <= 1

(***************************************************************************)
(* A sentiment request through the PerformanceMiddleware (specification    *)
(* SpecMiddleware): the middleware starts the metrics, the router calls    *)
(* the service, the middleware reads request.state.cache_hit and completes *)
(* the metrics and the headers.                                            *)
(***************************************************************************)
\* the request_state argument the router gives analyze_sentiment: the call
\* is sentiment_service.analyze_sentiment(request.text), the argument keeps
\* its default None
RouterRequestState == "None"

\* request.state after the service call: analyze_sentiment sets cache_hit
\* on the request state it is given, and on nothing when it is given None
StateAfterService(request_state, hit) ==
  IF request_state = "None" THEN [has_cache_hit |-> FALSE, cache_hit |-> FALSE]
  ELSE [has_cache_hit |-> TRUE, cache_hit |-> hit]

\* getattr(request.state, 'cache_hit', False)
GetCacheHit(state) == IF state.has_cache_hit THEN state.cache_hit ELSE FALSE

\* what the middleware completes the request with: the metrics' cache_hit
\* and the X-Cache-Hit header; from_cache tells whether the service
\* answered from the cache
Dispatched(text, status, from_cache, cache_hit) ==
  [op |-> "dispatch", path |-> "/sentiment-analysis", text |-> text, status |-> status,
   from_cache |-> from_cache, cache_hit |-> cache_hit,
   x_cache_hit |-> IF cache_hit THEN "true" ELSE "false"]

\* PerformanceMiddleware.dispatch around POST /sentiment-analysis
DispatchSentiment(text) ==
  IF Strip(text) = <<>>
  THEN Rejected(Dispatched(text, 400, FALSE, FALSE))
  ELSE /\ probe' =
            Dispatched(text, 200,
                       CacheManager_get(cache, generate_sentiment_key(text), now).value # NoResult,
                       GetCacheHit(StateAfterService(RouterRequestState,
                           CacheManager_get(cache, generate_sentiment_key(text), now).value
                             # NoResult)))
       /\ UNCHANGED <<pending, _cache_instance>>
       /\ Looked("sentiment", text, <<>>, generate_sentiment_key(text),
                 CacheManager_get(cache, generate_sentiment_key(text), now),
                 SentimentPolarityInputs(text))

MaxDispatches == 3

DispatchTexts == {TxtBlank, TxtHi, TxtLoveBob, TxtSoGood}

MiddlewareNext ==
  /\ steps < MaxDispatches
  /\ \/ \E text \in DispatchTexts : DispatchSentiment(text)
     \/ ClearCache
     \/ \E d \in TickInputs : Tick(d)

SpecMiddleware == Init /\ [][MiddlewareNext]_vars

\* C30: whenever a sentiment request is answered from the cache, the
\* middleware completes its metrics with cache_hit = true and sends
\* X-Cache-Hit: true; when the result is computed, cache_hit = false.
C30_CacheHitReported ==
  (probe.op = "dispatch" /\ probe.status = 200)
    => IF probe.from_cache
       THEN probe.cache_hit /\ probe.x_cache_hit = "true"
       ELSE ~probe.cache_hit

====
